---- MODULE Spec2Model ----
(***************************************************************************)
(* A model of the Amazon/Crossmint purchase proxy (src/server.js): the     *)
(* offer codec (base64url over JSON), the offer authenticator (HMAC, hex,  *)
(* timingSafeEqual), the catalog validator, the idempotency ledger and the *)
(* POST /purchase handler.                                                 *)
(*                                                                         *)
(* Text is modelled as sequences of character codes (ASCII), buffers as    *)
(* sequences of bytes 0..255.  An absent JavaScript property (undefined)   *)
(* is the value Absent (AbsentPrice for the price object).                 *)
(***************************************************************************)
EXTENDS Integers, Sequences, FiniteSets, TLC

VARIABLES
    probe,              \* the pure-function specifications: inputs and outputs of one call
    secret,             \* process.env.PRODUCT_SIGNING_SECRET
    now,                \* Date.now(), in ms since the process started
    ticks,              \* how many times the clock has advanced
    productCatalog,     \* the catalog variable (null until loaded)
    configFile,         \* the catalog of config/product-catalog.json, if any
    idempotencyCache,   \* Map: idempotency key -> [result, timestamp]
    pendingPayments,    \* Map: payment id -> payment record
    reqs                \* the purchase requests received so far, in order of arrival

vars == <<probe, secret, now, ticks, productCatalog, configFile, idempotencyCache, pendingPayments, reqs>>
serverVars == <<now, ticks, productCatalog, configFile, idempotencyCache, pendingPayments, reqs>>

\* undefined, where a text is expected: a sequence that is no text (-1 is no character)
Absent == <<-1>>
\* undefined, where the price object is expected
AbsentPrice == [amount |-> -1]

(***************************************************************************)
(* Sequence helpers                                                        *)
(***************************************************************************)
RECURSIVE FlatMap(_, _)
\* s with every element x replaced by the sequence m[x] when x is in DOMAIN m
FlatMap(s, m) ==
    IF s = <<>> THEN <<>>
    ELSE (IF Head(s) \in DOMAIN m THEN m[Head(s)] ELSE <<Head(s)>>) \o FlatMap(Tail(s), m)

\* String.prototype.replace(/c/g, r) for a one-character replacement r
ReplaceAll(s, c, r) == [i \in 1..Len(s) |-> IF s[i] = c THEN r ELSE s[i]]

\* String.prototype.replace(/c/g, '')
RemoveAll(s, c) == SelectSeq(s, LAMBDA x : x # c)

\* the first index at which s holds c, or 0
IndexOf(s, c) ==
    LET at == {i \in 1..Len(s) : s[i] = c}
    IN  IF at = {} THEN 0 ELSE CHOOSE i \in at : \A j \in at : i <= j

Repeat(c, n) == [i \in 1..n |-> c]

Prefix(s, n) == SubSeq(s, 1, n)

(***************************************************************************)
(* Character codes used by the codec                                       *)
(***************************************************************************)
CH_PLUS == 43
CH_SLASH == 47
CH_EQ == 61
CH_MINUS == 45
CH_UNDERSCORE == 95

(***************************************************************************)
(* Buffer.toString('base64') and Buffer.from(str, 'base64')                *)
(***************************************************************************)
\* the character of the standard base64 alphabet for the sextet i
B64Char(i) ==
    IF i < 26 THEN 65 + i
    ELSE IF i < 52 THEN 97 + (i - 26)
    ELSE IF i < 62 THEN 48 + (i - 52)
    ELSE IF i = 62 THEN CH_PLUS ELSE CH_SLASH

\* the sextet of a character, -1 for a character outside the alphabet; Node's
\* decoder accepts the URL-safe characters '-' and '_' as 62 and 63 as well
B64Index(c) ==
    IF c >= 65 /\ c <= 90 THEN c - 65
    ELSE IF c >= 97 /\ c <= 122 THEN c - 97 + 26
    ELSE IF c >= 48 /\ c <= 57 THEN c - 48 + 52
    ELSE IF c = CH_PLUS \/ c = CH_MINUS THEN 62
    ELSE IF c = CH_SLASH \/ c = CH_UNDERSCORE THEN 63
    ELSE -1

\* buffer.toString('base64'): three bytes to four characters, '=' padded
ToBase64(b) ==
    LET n == Len(b)
        byte(i) == IF i <= n THEN b[i] ELSE 0
        char(j) ==
            LET g == (j - 1) \div 4
                k == (j - 1) % 4
                b1 == byte(3 * g + 1)
                b2 == byte(3 * g + 2)
                b3 == byte(3 * g + 3)
            IN  IF k = 0 THEN B64Char(b1 \div 4)
                ELSE IF k = 1 THEN B64Char((b1 % 4) * 16 + b2 \div 16)
                ELSE IF k = 2 THEN
                    (IF 3 * g + 2 > n THEN CH_EQ ELSE B64Char((b2 % 16) * 4 + b3 \div 64))
                ELSE (IF 3 * g + 3 > n THEN CH_EQ ELSE B64Char(b3 % 64))
    IN  [j \in 1..(4 * ((n + 2) \div 3)) |-> char(j)]

\* the sextets of the characters of s that belong to the alphabet (the decoder
\* skips the others)
LegalSextets(s) ==
    LET legal == SelectSeq(s, LAMBDA c : B64Index(c) >= 0)
    IN  [i \in 1..Len(legal) |-> B64Index(legal[i])]

\* four sextets to three bytes; a trailing group of 2 gives 1 byte, of 3 gives 2
SextetsToBytes(x) ==
    LET m == Len(x)
        rest == m % 4
        n == 3 * (m \div 4) + (IF rest = 2 THEN 1 ELSE IF rest = 3 THEN 2 ELSE 0)
        sextet(i) == IF i <= m THEN x[i] ELSE 0
        byte(j) ==
            LET g == (j - 1) \div 3
                k == (j - 1) % 3
                x1 == sextet(4 * g + 1)
                x2 == sextet(4 * g + 2)
                x3 == sextet(4 * g + 3)
                x4 == sextet(4 * g + 4)
            IN  IF k = 0 THEN x1 * 4 + x2 \div 16
                ELSE IF k = 1 THEN (x2 % 16) * 16 + x3 \div 4
                ELSE (x3 % 4) * 64 + x4
    IN  [j \in 1..n |-> byte(j)]

\* Buffer.from(str, 'base64'): never throws; decoding stops at the first '=',
\* characters outside the alphabet are skipped
FromBase64(s) ==
    LET stop == IndexOf(s, CH_EQ)
        body == IF stop = 0 THEN s ELSE Prefix(s, stop - 1)
    IN  SextetsToBytes(LegalSextets(body))

(***************************************************************************)
(* base64urlEncode / base64urlDecode  (src/server.js 117-130)              *)
(***************************************************************************)
\* base64urlEncode with the replacement of '+' left out
base64urlEncode_KeepPlus(buffer) ==
    RemoveAll(ReplaceAll(ToBase64(buffer), CH_SLASH, CH_UNDERSCORE), CH_EQ)

base64urlEncode(buffer) ==
    RemoveAll(ReplaceAll(ReplaceAll(ToBase64(buffer), CH_PLUS, CH_MINUS),
                         CH_SLASH, CH_UNDERSCORE), CH_EQ)

base64urlDecode(str) ==
    LET padded == str \o Repeat(CH_EQ, (4 - (Len(str) % 4)) % 4)
        std == ReplaceAll(ReplaceAll(padded, CH_MINUS, CH_PLUS), CH_UNDERSCORE, CH_SLASH)
    IN  FromBase64(std)

(***************************************************************************)
(* JSON.stringify / JSON.parse of an offer                                 *)
(*                                                                         *)
(* The offer keeps the properties the purchase flow reads, in the order    *)
(* searchAmazonProducts creates them: asin, title, price.amount.  A price  *)
(* amount is a number of cents (16999 is 169.99).                          *)
(***************************************************************************)
MaxTitleLen == 2

ASIN_AIRPODS == <<66, 48, 56, 67, 55, 75, 71, 53, 76, 80>>        \* "B08C7KG5LP"
ASIN_ALT == <<66, 48, 49, 77, 84, 66, 53, 53, 87, 72>>            \* "B01MTB55WH"
ASIN_UNKNOWN == <<90, 90, 90, 95, 85, 78, 75, 78, 79, 87, 78>>    \* "ZZZ_UNKNOWN"

Asins == {ASIN_AIRPODS, ASIN_ALT, ASIN_UNKNOWN}
\* the characters of a title: a  >  ?  "
TitleChars == {97, 62, 63, 34}
Titles == UNION {[1..n -> TitleChars] : n \in 0..MaxTitleLen}
Amounts == {0, 500, 16999}

JNull == [type |-> "null"]
\* the offers searchAmazonProducts builds (item.asin may be missing in a result)
Offers ==
    [type : {"object"}, asin : Asins \cup {Absent}, title : Titles,
     price : [amount : Amounts]]
\* what a token can decode to: an offer, an object lacking properties, null
JsonValues ==
    {JNull} \cup
    [type : {"object"}, asin : Asins \cup {Absent}, title : Titles \cup {Absent},
     price : [amount : Amounts] \cup {AbsentPrice}]

RECURSIVE Digits(_)
\* the decimal digits of a natural number
Digits(n) == IF n < 10 THEN <<48 + n>> ELSE Digits(n \div 10) \o <<48 + (n % 10)>>

\* Number.prototype.toString of cents/100: 16999 is "169.99", 550 is "5.5", 500 is "5"
NumberText(cents) ==
    Digits(cents \div 100) \o
    (IF cents % 100 = 0 THEN <<>>
     ELSE <<46, 48 + ((cents % 100) \div 10)>> \o
          (IF cents % 10 = 0 THEN <<>> ELSE <<48 + (cents % 10)>>))

\* a JSON string literal: quotes around the text, '"' and '\' escaped
QuoteString(s) == <<34>> \o FlatMap(s, (34 :> <<92, 34>>) @@ (92 :> <<92, 92>>)) \o <<34>>

RECURSIVE JoinComma(_)
JoinComma(parts) ==
    IF parts = <<>> THEN <<>>
    ELSE IF Len(parts) = 1 THEN parts[1]
    ELSE parts[1] \o <<44>> \o JoinComma(Tail(parts))

\* JSON.stringify: properties in creation order, undefined properties left out
JSON_stringify(v) ==
    IF v.type = "null" THEN <<110, 117, 108, 108>>
    ELSE LET asin == IF v.asin = Absent THEN <<>>
                     ELSE << <<34, 97, 115, 105, 110, 34, 58>> \o QuoteString(v.asin) >>
             title == IF v.title = Absent THEN <<>>
                      ELSE << <<34, 116, 105, 116, 108, 101, 34, 58>> \o QuoteString(v.title) >>
             price == IF v.price = AbsentPrice THEN <<>>
                      ELSE << <<34, 112, 114, 105, 99, 101, 34, 58>> \o
                              <<123>> \o <<34, 97, 109, 111, 117, 110, 116, 34, 58>> \o
                              NumberText(v.price.amount) \o <<125>> >>
         IN  <<123>> \o JoinComma(asin \o title \o price) \o <<125>>

StringifyTable == [v \in JsonValues |-> JSON_stringify(v)]
JsonTexts == {StringifyTable[v] : v \in JsonValues}

SyntaxError == [type |-> "SyntaxError"]
\* JSON.parse: the value whose serialization the text is; any other text of the
\* model (a truncated or empty serialization) is not JSON and raises SyntaxError
JSON_parse(text) ==
    IF text \in JsonTexts
    THEN CHOOSE v \in JsonValues : StringifyTable[v] = text
    ELSE SyntaxError

\* Buffer.from(string) and buffer.toString('utf8'): the texts of the model are
\* ASCII, one byte per character; a byte that is no ASCII character decodes to
\* U+FFFD
Utf8Encode(s) == s
Utf8Decode(b) == [i \in 1..Len(b) |-> IF b[i] < 128 THEN b[i] ELSE 65533]

(***************************************************************************)
(* signProduct's encoding half and decodeProduct  (src/server.js 132-159)  *)
(***************************************************************************)
\* signProduct: productBlob = base64urlEncode(Buffer.from(JSON.stringify(product)))
encodeProduct(product) == base64urlEncode(Utf8Encode(JSON_stringify(product)))

DecodeError == [type |-> "Error", message |-> "Invalid product blob format"]
\* decodeProduct: any exception of the decoding becomes 'Invalid product blob format'
decodeProduct(productBlob) ==
    LET parsed == JSON_parse(Utf8Decode(base64urlDecode(productBlob)))
    IN  IF parsed = SyntaxError THEN DecodeError ELSE parsed

(***************************************************************************)
(* The offer authenticator  (src/server.js 132-150)                        *)
(*                                                                         *)
(* crypto.createHmac('sha256', key).update(msg).digest() is modelled as a  *)
(* keyed hash with a fixed-length output (DigestBytes bytes instead of 32) *)
(* that has no collisions on the keys and messages of the model.           *)
(***************************************************************************)
DigestBytes == 4

SECRET_A == <<115, 49>>     \* "s1"
SECRET_B == <<115, 50>>     \* "s2"
Secrets == {SECRET_A, SECRET_B}

RECURSIVE WeightedSum(_, _, _, _)
\* the sum over i in lo..hi of (s[i] + 1) * weight(i), by halving
WeightedSum(s, mult, lo, hi) ==
    IF lo > hi THEN 0
    ELSE IF lo = hi THEN (s[lo] + 1) * (((lo * mult) % 251) + 1)
    ELSE LET mid == (lo + hi) \div 2
         IN  WeightedSum(s, mult, lo, mid) + WeightedSum(s, mult, mid + 1, hi)

\* a position-weighted checksum of s, one byte wide
ByteHash(s, mult) == WeightedSum(s, mult, 1, Len(s)) % 251

createHmac(key, msg) ==
    LET input == key \o <<0>> \o msg
    IN  [i \in 1..DigestBytes |-> ByteHash(input, 30 + i)]

HexDigit(n) == IF n < 10 THEN 48 + n ELSE 97 + (n - 10)
\* the value of a hexadecimal digit (either case), -1 for any other character
Unhex(c) ==
    IF c >= 48 /\ c <= 57 THEN c - 48
    ELSE IF c >= 97 /\ c <= 102 THEN c - 97 + 10
    ELSE IF c >= 65 /\ c <= 70 THEN c - 65 + 10
    ELSE -1

\* digest('hex'): two lowercase hexadecimal digits per byte
HexEncode(b) ==
    [j \in 1..(2 * Len(b)) |->
        LET byte == b[(j + 1) \div 2]
        IN  IF j % 2 = 1 THEN HexDigit(byte \div 16) ELSE HexDigit(byte % 16)]

\* Buffer.from(str, 'hex'): one byte per pair of digits, cut at the first pair that
\* is not two hexadecimal digits; a trailing single character is dropped
HexDecode(s) ==
    LET pairs == Len(s) \div 2
        bad == {i \in 1..pairs : Unhex(s[2 * i - 1]) < 0 \/ Unhex(s[2 * i]) < 0}
        n == IF bad = {} THEN pairs ELSE (CHOOSE i \in bad : \A j \in bad : i <= j) - 1
    IN  [i \in 1..n |-> Unhex(s[2 * i - 1]) * 16 + Unhex(s[2 * i])]

\* crypto.timingSafeEqual: raises RangeError for buffers of different lengths
timingSafeEqual(a, b) ==
    IF Len(a) # Len(b) THEN [threw |-> TRUE, value |-> FALSE]
    ELSE [threw |-> FALSE, value |-> (a = b)]

\* signProduct, with the signing secret read from the environment as a parameter
signProduct(product, signingSecret) ==
    LET productBlob == encodeProduct(product)
    IN  [productBlob |-> productBlob,
         signature |-> HexEncode(createHmac(signingSecret, productBlob))]

\* verifyProductSignature with the secret captured once, at the first start
verifyProductSignature_StartupSecret(productBlob, signature, signingSecret) ==
    LET expectedSignature == HexEncode(createHmac(SECRET_A, productBlob))
    IN  timingSafeEqual(HexDecode(signature), HexDecode(expectedSignature))

\* verifyProductSignature, with the signing secret as a parameter:
\* [threw, value]: whether the call raised, and the boolean it returned otherwise
verifyProductSignature(productBlob, signature, signingSecret) ==
    LET expectedSignature == HexEncode(createHmac(signingSecret, productBlob))
    IN  timingSafeEqual(HexDecode(signature), HexDecode(expectedSignature))

(***************************************************************************)
(* The product catalog  (src/server.js 54-110)                             *)
(***************************************************************************)
NoProduct == [asin |-> Absent, price |-> -1]
NullCatalog == [loaded |-> FALSE, defaultASIN |-> Absent, products |-> <<>>]
\* the built-in catalog of loadProductCatalog (config/product-catalog.json is
\* not part of the repository's files)
FallbackCatalog ==
    [loaded |-> TRUE, defaultASIN |-> ASIN_AIRPODS,
     products |-> << [asin |-> ASIN_AIRPODS, price |-> 16999],
                     [asin |-> ASIN_ALT, price |-> 16999] >>]

\* no readable catalog in config/product-catalog.json
NoFile == [loaded |-> FALSE, defaultASIN |-> Absent, products |-> <<>>]

\* a file that is no JSON text
UnparsableFile == [syntaxError |-> TRUE]
\* a JSON object without products: {"defaultASIN": "B01MTB55WH"}
NoProductsFile == [loaded |-> TRUE, defaultASIN |-> ASIN_ALT]
BrokenFiles == {NoFile, UnparsableFile, NoProductsFile}

\* the exception raised inside the try block of loadProductCatalog, "" if none:
\* by readFileSync, by JSON.parse, by productCatalog.products.length
LoadError(file) ==
    IF file = NoFile THEN "ENOENT"
    ELSE IF file = UnparsableFile THEN "SyntaxError"
    ELSE IF "products" \notin DOMAIN file THEN "TypeError"
    ELSE ""

\* loadProductCatalog without its catch block's catalog
loadProductCatalog_NoFallback(file) ==
    IF LoadError(file) # "" THEN NullCatalog ELSE file

\* loadProductCatalog: the catalog of the file, or the built-in one when
\* reading or parsing the file fails
loadProductCatalog(file) ==
    IF LoadError(file) # "" THEN FallbackCatalog ELSE file

\* Array.prototype.find(p => p.asin === asin): the first match, or undefined
FindProduct(products, asin) ==
    LET at == {i \in 1..Len(products) : products[i].asin = asin}
    IN  IF at = {} THEN NoProduct
        ELSE products[CHOOSE i \in at : \A j \in at : i <= j]

\* validateAsin accepting every identifier an offer names
validateAsin_TrustsOffer(asin, catalogVar, file) ==
    LET catalog == IF catalogVar.loaded THEN catalogVar ELSE loadProductCatalog(file)
        product == FindProduct(catalog.products, asin)
    IN  IF asin = Absent THEN
            [valid |-> TRUE, asin |-> catalog.defaultASIN,
             product |-> FindProduct(catalog.products, catalog.defaultASIN),
             reason |-> "used_default", suggestions |-> <<>>, catalog |-> catalog]
        ELSE
            [valid |-> TRUE, asin |-> asin,
             product |-> IF product # NoProduct THEN product
                         ELSE [asin |-> asin, price |-> 16999],
             reason |-> "found_in_catalog", suggestions |-> <<>>, catalog |-> catalog]

\* validateAsin suggesting every identifier of the catalog
validateAsin_AllSuggested(asin, catalogVar, file) ==
    LET catalog == IF catalogVar.loaded THEN catalogVar ELSE loadProductCatalog(file)
        product == FindProduct(catalog.products, asin)
        asins == [i \in 1..Len(catalog.products) |-> catalog.products[i].asin]
    IN  IF asin = Absent THEN
            [valid |-> TRUE, asin |-> catalog.defaultASIN,
             product |-> FindProduct(catalog.products, catalog.defaultASIN),
             reason |-> "used_default", suggestions |-> <<>>, catalog |-> catalog]
        ELSE IF product # NoProduct THEN
            [valid |-> TRUE, asin |-> asin, product |-> product,
             reason |-> "found_in_catalog", suggestions |-> <<>>, catalog |-> catalog]
        ELSE
            [valid |-> FALSE, asin |-> asin, product |-> NoProduct,
             reason |-> "not_in_catalog", suggestions |-> asins, catalog |-> catalog]

\* validateAsin, given the catalog variable and the catalog file; .catalog is the
\* variable afterwards
validateAsin(asin, catalogVar, file) ==
    LET catalog == IF catalogVar.loaded THEN catalogVar ELSE loadProductCatalog(file)
        product == FindProduct(catalog.products, asin)
        asins == [i \in 1..Len(catalog.products) |-> catalog.products[i].asin]
    IN  IF asin = Absent THEN
            [valid |-> TRUE, asin |-> catalog.defaultASIN,
             product |-> FindProduct(catalog.products, catalog.defaultASIN),
             reason |-> "used_default", suggestions |-> <<>>, catalog |-> catalog]
        ELSE IF product # NoProduct THEN
            [valid |-> TRUE, asin |-> asin, product |-> product,
             reason |-> "found_in_catalog", suggestions |-> <<>>, catalog |-> catalog]
        ELSE
            [valid |-> FALSE, asin |-> asin, product |-> NoProduct,
             reason |-> "not_in_catalog",
             suggestions |-> SubSeq(asins, 1, IF Len(asins) < 3 THEN Len(asins) ELSE 3),
             catalog |-> catalog]

\* "amazon:"
AMAZON_PREFIX == <<97, 109, 97, 122, 111, 110, 58>>
\* the exception of toAmazonLocator
LocatorError == <<-2>>
\* a string that is present and not empty
TruthyText(x) == x # Absent /\ x # <<>>

\* toAmazonLocator(p): the product locator of the order request
toAmazonLocator(p) ==
    IF TruthyText(p.asin) THEN AMAZON_PREFIX \o p.asin
    ELSE IF TruthyText(p.url) THEN AMAZON_PREFIX \o p.url
    ELSE LocatorError

(***************************************************************************)
(* The idempotency ledger  (src/server.js 168-197)                         *)
(***************************************************************************)
RETENTION_MS == 3600000

NoResult == [none |-> TRUE]

MapRemove(m, k) == [x \in DOMAIN m \ {k} |-> m[x]]
MapSet(m, k, v) == [x \in DOMAIN m \cup {k} |-> IF x = k THEN v ELSE m[x]]

\* checkIdempotency with the window's end included
checkIdempotency_Inclusive(cache, key, t) ==
    IF key \in DOMAIN cache THEN
        IF t - cache[key].timestamp <= RETENTION_MS
        THEN [result |-> cache[key].result, cache |-> cache]
        ELSE [result |-> NoResult, cache |-> MapRemove(cache, key)]
    ELSE [result |-> NoResult, cache |-> cache]

\* checkIdempotency with the comparison turned around
checkIdempotency_Inverted(cache, key, t) ==
    IF key \in DOMAIN cache THEN
        IF t - cache[key].timestamp > RETENTION_MS
        THEN [result |-> cache[key].result, cache |-> cache]
        ELSE [result |-> NoResult, cache |-> MapRemove(cache, key)]
    ELSE [result |-> NoResult, cache |-> cache]

\* checkIdempotency reserving the key for the request that finds it free
checkIdempotency_Reserving(cache, key, t) ==
    IF key \in DOMAIN cache THEN
        IF t - cache[key].timestamp < RETENTION_MS
        THEN [result |-> cache[key].result, cache |-> cache]
        ELSE [result |-> NoResult, cache |-> MapRemove(cache, key)]
    ELSE [result |-> NoResult,
          cache |-> MapSet(cache, key, [result |-> [inProgress |-> TRUE], timestamp |-> t])]

\* checkIdempotency at time t: the stored result (or null) and the cache afterwards
checkIdempotency(cache, key, t) ==
    IF key \in DOMAIN cache THEN
        IF t - cache[key].timestamp < RETENTION_MS
        THEN [result |-> cache[key].result, cache |-> cache]
        ELSE [result |-> NoResult, cache |-> MapRemove(cache, key)]
    ELSE [result |-> NoResult, cache |-> cache]

\* storeIdempotencyResult stamping the record with the start of the process
storeIdempotencyResult_Unstamped(cache, key, result, t) ==
    MapSet(cache, key, [result |-> result, timestamp |-> 0])

\* storeIdempotencyResult overwriting the result of a record and keeping its
\* timestamp
storeIdempotencyResult_Torn(cache, key, result, t) ==
    MapSet(cache, key,
           [result |-> result,
            timestamp |-> IF key \in DOMAIN cache THEN cache[key].timestamp ELSE t])

\* storeIdempotencyResult that stores nothing
storeIdempotencyResult_Dropped(cache, key, result, t) == cache

\* storeIdempotencyResult at time t
storeIdempotencyResult(cache, key, result, t) ==
    MapSet(cache, key, [result |-> result, timestamp |-> t])

EmptyMap == [k \in {} |-> 0]

\* the server right after start: no request yet, both maps empty, and the catalog
\* variable null again (line 55 runs after the load of line 42)
ServerIdle ==
    /\ now = 0
    /\ ticks = 0
    /\ productCatalog = NullCatalog
    /\ configFile = NoFile
    /\ idempotencyCache = EmptyMap
    /\ pendingPayments = EmptyMap
    /\ reqs = <<>>

(***************************************************************************)
(* The requests of the model.  A request body names its token and its      *)
(* signature; BlobText and SignatureText give the texts submitted.         *)
(***************************************************************************)
MaxRequests == 2
MaxQuantity == 2
MaxTicks == 1

SampleOffer ==
    [type |-> "object", asin |-> ASIN_AIRPODS, title |-> <<97>>, price |-> [amount |-> 16999]]
SampleToken == encodeProduct(SampleOffer)

\* the tokens a client submits
BlobText ==
    [offer |-> SampleToken,
     unknown |-> encodeProduct([SampleOffer EXCEPT !.asin = ASIN_UNKNOWN]),
     noAsin |-> encodeProduct([SampleOffer EXCEPT !.asin = Absent]),
     noPrice |-> encodeProduct([SampleOffer EXCEPT !.price = AbsentPrice]),
     null |-> encodeProduct(JNull),
     \* the token cut short: its text is no JSON
     truncated |-> Prefix(SampleToken, Len(SampleToken) - 6),
     \* a character outside the alphabet ('!') inside the token
     badChar |-> Prefix(SampleToken, 4) \o <<33>> \o SubSeq(SampleToken, 5, Len(SampleToken)),
     \* padding inside the token
     badPad |-> Prefix(SampleToken, 9) \o <<CH_EQ>> \o SubSeq(SampleToken, 10, Len(SampleToken)),
     \* no productBlob in the body
     missing |-> <<>>]
BlobNames == DOMAIN BlobText

\* the signature the server issued for a token (under SECRET_A)
IssuedSignature(blob) == HexEncode(createHmac(SECRET_A, blob))
\* the signatures a client submits with the token named b
SignatureText ==
    [b \in BlobNames |->
        LET good == IssuedSignature(BlobText[b])
        IN  [valid |-> good,
             \* one hexadecimal digit changed
             flipped |-> <<(IF good[1] = 48 THEN 49 ELSE 48)>> \o Tail(good),
             \* one byte only
             short |-> Prefix(good, 2),
             \* a character that is no hexadecimal digit ('z')
             notHex |-> <<122>> \o Tail(good),
             \* no signature in the body
             missing |-> <<>>]]
SigNames == {"valid", "flipped", "short", "notHex", "missing"}

NoKey == ""
Keys == {"K1", "K2"}
NoCeiling == -1
\* no quantity in the body
NoQuantity == -1
\* the quantity of a body read without the default of the destructuring
Quantity_Submitted(body) == body.quantity
\* const { quantity = 1 } = req.body
Quantity(body) == IF body.quantity = NoQuantity THEN 1 ELSE body.quantity
Ceilings == {16998, 16999}

\* a function as a table of its values, computed once
Table(f) == f @@ <<>>

\* verifyProductSignature and decodeProduct on the texts of the model
VerifyMemo ==
    Table([k \in Secrets |-> Table([b \in BlobNames |-> Table([g \in SigNames |->
        verifyProductSignature(BlobText[b], SignatureText[b][g], k)])])])
DecodeMemo == Table([b \in BlobNames |-> decodeProduct(BlobText[b])])
\* whether the body carries the field at all
HasText == Table([b \in BlobNames |-> Table([g \in SigNames |->
               [blob |-> BlobText[b] # <<>>, sig |-> SignatureText[b][g] # <<>>]])])

(***************************************************************************)
(* POST /purchase  (src/server.js 382-673)                                 *)
(***************************************************************************)
M_MISSING == "productBlob and signature are required"
M_SIGNATURE == "Product signature verification failed"
M_BLOB == "Failed to decode product data: Invalid product blob format"
M_CATALOG == "ASIN is not in the approved product catalog"
M_PRICE == "Current price exceeds expected price"
M_RANGE == "Input buffers must have the same byte length"
M_TYPE == "Cannot read properties of undefined"
M_NULL == "Cannot read properties of null"
M_API == "Crossmint API error: 500 Internal Server Error"
M_NOID == "Invalid Crossmint response: missing order identifier"
M_NOTOBJ == "Invalid Crossmint response: not an object"
M_FETCH == "fetch failed"
M_LOCATOR == "No ASIN or URL for productLocator"
M_SUCCESS == "Purchase completed successfully!"

\* error.message.includes(needle), for the messages and needles of the handler
MessageIncludes(message, needle) ==
    <<message, needle>> \in
        {<<M_API, "Crossmint API error">>,
         <<M_NOID, "Invalid Crossmint response">>,
         <<M_NOTOBJ, "Invalid Crossmint response">>,
         <<M_SIGNATURE, "Product signature verification failed">>,
         <<M_BLOB, "Invalid product blob">>}

(***************************************************************************)
(* The body of a fulfillment response.  A value of a field is a positive   *)
(* number for a non-empty identifier, or one of the falsy values below;    *)
(* the body itself is described by its typeof, its truthiness and its      *)
(* three identifier fields (an array and an object without these fields    *)
(* read alike: all three undefined).                                       *)
(***************************************************************************)
JS_UNDEFINED == -1
JS_NULL == -2
JS_EMPTY_STRING == -3
Truthy(v) == v > 0
\* a || b
Or(a, b) == IF Truthy(a) THEN a ELSE b

ResponseObject(orderId, id, order_id) ==
    [type |-> "object", truthy |-> TRUE,
     orderId |-> orderId, id |-> id, order_id |-> order_id]
\* null, a string, a number, a boolean
ResponsePrimitive(type, truthy) ==
    [type |-> type, truthy |-> truthy,
     orderId |-> JS_UNDEFINED, id |-> JS_UNDEFINED, order_id |-> JS_UNDEFINED]
NoData == ResponsePrimitive("undefined", FALSE)

\* validateCrossmintOrderResponse with the fields read in another order
validateCrossmintOrderResponse_IdFirst(data) ==
    IF ~data.truthy \/ data.type # "object" THEN
        [threw |-> TRUE, message |-> M_NOTOBJ, orderId |-> JS_UNDEFINED]
    ELSE LET orderId == Or(Or(data.id, data.orderId), data.order_id)
         IN  IF ~Truthy(orderId) THEN
                 [threw |-> TRUE, message |-> M_NOID, orderId |-> JS_UNDEFINED]
             ELSE [threw |-> FALSE, message |-> "", orderId |-> orderId]

\* validateCrossmintOrderResponse(data): the exception it throws, or the order
\* identifier it extracts
validateCrossmintOrderResponse(data) ==
    IF ~data.truthy \/ data.type # "object" THEN
        [threw |-> TRUE, message |-> M_NOTOBJ, orderId |-> JS_UNDEFINED]
    ELSE LET orderId == Or(Or(data.orderId, data.id), data.order_id)
         IN  IF ~Truthy(orderId) THEN
                 [threw |-> TRUE, message |-> M_NOID, orderId |-> JS_UNDEFINED]
             ELSE [threw |-> FALSE, message |-> "", orderId |-> orderId]

\* the body that callCrossmintAPI returns for a named reply to the order call
\* numbered requestId; NoData when the call throws
ReplyData(reply, requestId) ==
    IF reply = "created" THEN ResponseObject(requestId, JS_UNDEFINED, JS_UNDEFINED)
    ELSE IF reply = "no_order_id"
    THEN ResponseObject(JS_UNDEFINED, JS_UNDEFINED, JS_UNDEFINED)
    ELSE NoData

NoOrder == [productLocator |-> Absent]
NoLocals ==
    [product |-> JNull, validatedAsin |-> Absent, catalogProduct |-> NoProduct,
     totalPrice |-> 0]

\* createErrorResponse: the body of a rejection, created at time t
createErrorResponse(stage, code, message, requestId, t) ==
    [ok |-> FALSE, stage |-> stage, code |-> code, message |-> message,
     requestId |-> requestId, timestamp |-> t,
     orderId |-> 0, paymentId |-> 0, asin |-> Absent, quantity |-> 0,
     unitPrice |-> 0, totalPrice |-> 0, suggestions |-> <<>>]

\* the catch block without its store
CatchError_NotStored(message, requestId, idempotencyKey, cache, t) ==
    LET class ==
            IF MessageIncludes(message, "Crossmint API error")
            THEN <<"crossmint.createOrder", "CROSSMINT_API_ERROR", 502>>
            ELSE IF MessageIncludes(message, "Invalid Crossmint response")
            THEN <<"crossmint.validation", "CROSSMINT_INVALID_RESPONSE", 502>>
            ELSE IF MessageIncludes(message, "Product signature verification failed")
            THEN <<"auth", "INVALID_SIGNATURE", 400>>
            ELSE IF MessageIncludes(message, "Invalid product blob")
            THEN <<"validation", "INVALID_PRODUCT_BLOB", 400>>
            ELSE <<"unknown", "INTERNAL_ERROR", 500>>
    IN  [status |-> class[3],
         result |-> createErrorResponse(class[1], class[2], message, requestId, t),
         cache |-> cache]

\* the catch block storing its result whether or not there is a key
CatchError_AlwaysStored(message, requestId, idempotencyKey, cache, t) ==
    LET caught == CatchError_NotStored(message, requestId, idempotencyKey, cache, t)
    IN  [status |-> caught.status, result |-> caught.result,
         cache |-> storeIdempotencyResult(cache, idempotencyKey, caught.result, t)]

\* the catch block letting the exceptions it does not recognise pass: no response
CatchError_Rethrow(message, requestId, idempotencyKey, cache, t) ==
    LET caught == CatchError_NotStored(message, requestId, idempotencyKey, cache, t)
    IN  IF caught.result.stage = "unknown"
        THEN [status |-> 0, result |-> NoResult, cache |-> cache]
        ELSE caught

\* the catch block: the error classified by its message, stored under the key
\* if there is one; [status, result, cache]
CatchError(message, requestId, idempotencyKey, cache, t) ==
    LET class ==
            IF MessageIncludes(message, "Crossmint API error")
            THEN <<"crossmint.createOrder", "CROSSMINT_API_ERROR", 502>>
            ELSE IF MessageIncludes(message, "Invalid Crossmint response")
            THEN <<"crossmint.validation", "CROSSMINT_INVALID_RESPONSE", 502>>
            ELSE IF MessageIncludes(message, "Product signature verification failed")
            THEN <<"auth", "INVALID_SIGNATURE", 400>>
            ELSE IF MessageIncludes(message, "Invalid product blob")
            THEN <<"validation", "INVALID_PRODUCT_BLOB", 400>>
            ELSE <<"unknown", "INTERNAL_ERROR", 500>>
        errorResponse == createErrorResponse(class[1], class[2], message, requestId, t)
    IN  [status |-> class[3], result |-> errorResponse,
         cache |-> IF idempotencyKey # NoKey
                   THEN storeIdempotencyResult(cache, idempotencyKey, errorResponse, t)
                   ELSE cache]

\* what the try block does up to the await of callCrossmintAPI:
\* kind "return" (a response was sent), "throw" (an exception) or "await"
TrySteps(kind, steps, status, result, message, catalog, locals, order) ==
    [kind |-> kind, steps |-> steps, status |-> status, result |-> result,
     message |-> message, catalog |-> catalog, locals |-> locals, order |-> order]

\* the price check with the comparison turned around
PriceExceeded_Reversed(product, priceExpectation) ==
    priceExpectation # NoCeiling /\ product.price.amount < priceExpectation

\* the price check rejecting a price equal to the ceiling too
PriceExceeded_Inclusive(product, priceExpectation) ==
    priceExpectation # NoCeiling /\ product.price.amount >= priceExpectation

\* priceExpectation && product.price.amount > priceExpectation.amount
PriceExceeded(product, priceExpectation) ==
    priceExpectation # NoCeiling /\ product.price.amount > priceExpectation

\* the try block up to the await, written over the values of its constants
\* isValidSignature (with the exception verifyProductSignature may raise),
\* product and asinValidation
tryPurchase(body, requestId, signingSecret, catalogVar, file, t) ==
    LET reject(steps, stage, code, message, catalog) ==
            TrySteps("return", steps, 400,
                     createErrorResponse(stage, code, message, requestId, t),
                     "", catalog, NoLocals, NoOrder)
        throw(steps, message, catalog) ==
            TrySteps("throw", steps, 0, NoResult, message, catalog, NoLocals, NoOrder)
        block(verified, product, asinValidation) ==
            IF verified.threw THEN throw(<<"verify">>, M_RANGE, catalogVar)
            ELSE IF ~verified.value THEN
                reject(<<"verify">>, "auth", "INVALID_SIGNATURE", M_SIGNATURE, catalogVar)
            ELSE IF product = DecodeError THEN
                reject(<<"verify", "decode">>, "validation", "INVALID_PRODUCT_BLOB", M_BLOB,
                       catalogVar)
            ELSE IF product = JNull THEN throw(<<"verify", "decode">>, M_NULL, catalogVar)
            ELSE IF ~asinValidation.valid THEN
                TrySteps("return", <<"verify", "decode", "catalog">>, 400,
                         [createErrorResponse("catalog.validate", "ASIN_NOT_IN_CATALOG",
                                              M_CATALOG, requestId, t)
                             EXCEPT !.suggestions = asinValidation.suggestions],
                         "", asinValidation.catalog, NoLocals, NoOrder)
            ELSE IF asinValidation.product = NoProduct THEN
                throw(<<"verify", "decode", "catalog">>, M_TYPE, asinValidation.catalog)
            ELSE IF product.price = AbsentPrice THEN
                throw(<<"verify", "decode", "catalog", "price">>, M_TYPE,
                      asinValidation.catalog)
            ELSE IF PriceExceeded(product, body.priceExpectation) THEN
                reject(<<"verify", "decode", "catalog", "price">>, "sku.validate",
                       "PRICE_EXCEEDED", M_PRICE, asinValidation.catalog)
            ELSE IF toAmazonLocator([asin |-> asinValidation.asin, url |-> Absent])
                        = LocatorError THEN
                throw(<<"verify", "decode", "catalog", "price">>, M_LOCATOR,
                      asinValidation.catalog)
            ELSE
                TrySteps("await", <<"verify", "decode", "catalog", "price", "order">>, 0,
                         NoResult, "", asinValidation.catalog,
                         [product |-> product, validatedAsin |-> asinValidation.asin,
                          catalogProduct |-> asinValidation.product,
                          totalPrice |-> product.price.amount * Quantity(body)],
                         [productLocator |->
                             toAmazonLocator([asin |-> asinValidation.asin,
                                              url |-> Absent])])
    IN  block(VerifyMemo[signingSecret][body.blob][body.sig],
              DecodeMemo[body.blob],
              validateAsin(DecodeMemo[body.blob].asin, catalogVar, file))

\* the required-fields test looking at the token only
RequiredFieldMissing_TokenOnly(body) == ~HasText[body.blob][body.sig].blob

\* !productBlob || !signature
RequiredFieldMissing(body) ==
    ~HasText[body.blob][body.sig].blob \/ ~HasText[body.blob][body.sig].sig

\* no ledger record
NoRecord == [result |-> NoResult, timestamp |-> -1]

\* the handler from the arrival of a request to its response or to the await of
\* the order call: the request's record and the shared state afterwards
purchaseReceive(body, requestId, signingSecret, catalogVar, file, cache, t) ==
    LET idempotencyKey == body.idempotencyKey
        request(pc, steps, status, result, ledger, locals, order) ==
            [body |-> body, pc |-> pc, steps |-> steps, status |-> status,
             result |-> result, arrivedAt |-> t, seen |-> ledger, locals |-> locals,
             order |-> order, reply |-> "none", data |-> NoData,
             finishedAfter |-> IF pc = "done" THEN requestId ELSE 0,
             finishedAt |-> IF pc = "done" THEN t ELSE -1]
        pre == IF idempotencyKey # NoKey THEN <<"required", "idempotency">>
               ELSE <<"required">>
        \* the ledger's record for the key when the request arrives
        held == IF idempotencyKey # NoKey /\ idempotencyKey \in DOMAIN cache
                THEN cache[idempotencyKey] ELSE NoRecord
        \* that record, and what the lookup did with it
        seen(checked) ==
            [held |-> held,
             hit |-> checked.result # NoResult,
             evicted |-> held # NoRecord /\ idempotencyKey \notin DOMAIN checked.cache]
        \* a request that ends before the lookup
        notChecked == [held |-> held, hit |-> FALSE, evicted |-> FALSE]
        caught(checked, try) ==
            CatchError(try.message, requestId, idempotencyKey, checked.cache, t)
        \* the handler over the outcome of the lookup and of the try block
        handler(checked, try) ==
            IF RequiredFieldMissing(body) THEN
                [request |-> request("done", <<"required">>, 400,
                                     createErrorResponse("validation",
                                                         "MISSING_REQUIRED_FIELDS",
                                                         M_MISSING, requestId, t),
                                     notChecked, NoLocals, NoOrder),
                 cache |-> cache, catalog |-> catalogVar]
            ELSE IF checked.result # NoResult THEN
                [request |-> request("done", pre, 200, checked.result, seen(checked),
                                     NoLocals, NoOrder),
                 cache |-> checked.cache, catalog |-> catalogVar]
            ELSE IF try.kind = "return" THEN
                [request |-> request("done", pre \o try.steps, try.status, try.result,
                                     seen(checked), NoLocals, NoOrder),
                 cache |-> checked.cache, catalog |-> try.catalog]
            ELSE IF try.kind = "throw" THEN
                [request |-> request("done", pre \o try.steps \o <<"catch">>,
                                     caught(checked, try).status,
                                     caught(checked, try).result, seen(checked),
                                     NoLocals, NoOrder),
                 cache |-> caught(checked, try).cache, catalog |-> try.catalog]
            ELSE
                [request |-> request("awaiting", pre \o try.steps, 0, NoResult,
                                     seen(checked), try.locals, try.order),
                 cache |-> checked.cache, catalog |-> try.catalog]
    IN  handler(IF idempotencyKey # NoKey
                THEN checkIdempotency(cache, idempotencyKey, t)
                ELSE [result |-> NoResult, cache |-> cache],
                tryPurchase(body, requestId, signingSecret, catalogVar, file, t))

\* what the order call can come back with: an order with an identifier, a
\* non-success HTTP status, a JSON object without identifier, a failed fetch
CrossmintReplies == {"created", "http_error", "no_order_id", "transport_error"}

\* the handler from the return of callCrossmintAPI to the response, for the
\* request numbered requestId: its record and the shared state afterwards
\* the record of a purchase left waiting for its payment
PaymentRecord_Pending(locals, quantity, orderId) ==
    [asin |-> locals.validatedAsin, originalAsin |-> locals.product.asin,
     quantity |-> quantity, totalPrice |-> locals.totalPrice,
     status |-> "pending", orderId |-> orderId]

\* the record pendingPayments.set stores once the order is created
PaymentRecord(locals, quantity, orderId) ==
    [asin |-> locals.validatedAsin, originalAsin |-> locals.product.asin,
     quantity |-> quantity, totalPrice |-> locals.totalPrice,
     status |-> "completed", orderId |-> orderId]

\* the order calls a request has made
OrderAttempts(steps) == Cardinality({n \in 1..Len(steps) : steps[n] = "order"})

\* the continuation making the order call again instead of ending the request
purchaseResume_Retry(request, requestId, reply, data, cache, pending, t, arrived) ==
    [request |-> [request EXCEPT !.steps = IF OrderAttempts(request.steps) < 3
                                           THEN request.steps \o <<"order">>
                                           ELSE request.steps,
                                 !.reply = reply],
     cache |-> cache, pending |-> pending]

purchaseResume(request, requestId, reply, data, cache, pending, t, arrived) ==
    LET body == request.body
        idempotencyKey == body.idempotencyKey
        called == reply \notin {"http_error", "transport_error"}
        validated == validateCrossmintOrderResponse(data)
        orderId == validated.orderId
        paymentId == requestId
        finished(steps, status, result) ==
            [request EXCEPT !.pc = "done", !.steps = request.steps \o steps,
                            !.status = status, !.result = result, !.reply = reply,
                            !.data = data,
                            !.finishedAfter = arrived, !.finishedAt = t]
        successResponse ==
            [ok |-> TRUE, stage |-> "", code |-> "", message |-> M_SUCCESS,
             requestId |-> 0, timestamp |-> t,
             orderId |-> orderId, paymentId |-> paymentId,
             asin |-> request.locals.product.asin, quantity |-> Quantity(body),
             unitPrice |-> request.locals.product.price.amount,
             totalPrice |-> request.locals.totalPrice, suggestions |-> <<>>]
        message == IF reply = "http_error" THEN M_API
                   ELSE IF reply = "transport_error" THEN M_FETCH
                   ELSE validated.message
        caught == CatchError(message, requestId, idempotencyKey, cache, t)
    IN  IF called /\ ~validated.threw THEN
            [request |-> finished(<<"validateResponse", "payment", "respond">>, 200,
                                  successResponse),
             cache |-> IF idempotencyKey # NoKey
                       THEN storeIdempotencyResult(cache, idempotencyKey, successResponse, t)
                       ELSE cache,
             pending |-> MapSet(pending, paymentId,
                                PaymentRecord(request.locals, Quantity(body), orderId))]
        ELSE
            [request |-> finished(<<"catch">>, caught.status, caught.result),
             cache |-> caught.cache, pending |-> pending]

(***************************************************************************)
(* The server: requests arrive, order calls return, time passes            *)
(***************************************************************************)
REAP_INTERVAL_MS == 1800000
\* the clock is read just before and exactly at the end of a retention window
TickSteps == {RETENTION_MS - 1, RETENTION_MS}

\* every request body of the model; quantity and price ceiling vary only where the
\* handler reads them (a correctly signed token that decodes to an object)
AllBodies ==
    [blob : BlobNames, sig : SigNames, idempotencyKey : Keys \cup {NoKey},
     priceExpectation : {NoCeiling} \cup Ceilings,
     quantity : {NoQuantity} \cup (1..MaxQuantity)]
WideBodies ==
    {b \in AllBodies :
        /\ b.idempotencyKey # "K2"
        /\ (b.sig # "valid" \/ b.blob \notin {"offer", "noAsin", "badChar", "badPad"})
              => (b.priceExpectation = NoCeiling /\ b.quantity = 1)}
\* the bodies of the specification of the ledger: an order, an early rejection, an
\* exception, a body without token; under every key and without key
CoreBodies ==
    {b \in AllBodies :
        /\ b.priceExpectation = NoCeiling
        /\ b.quantity = 1
        /\ <<b.blob, b.sig>> \in {<<"offer", "valid">>, <<"offer", "flipped">>,
                                  <<"offer", "short">>, <<"missing", "valid">>}}

\* the replies of the specification of the ledger: an order, and an error that
\* the catch block stores
CoreReplies == {"created", "http_error"}

\* a POST /purchase arrives and runs to its response or to the await
PurchaseArrive(bodies, limit) ==
    /\ Len(reqs) < limit
    /\ \E body \in bodies :
          LET out == purchaseReceive(body, Len(reqs) + 1, secret, productCatalog,
                                     configFile, idempotencyCache, now)
          IN  /\ reqs' = Append(reqs, out.request)
              /\ idempotencyCache' = out.cache
              /\ productCatalog' = out.catalog
    /\ UNCHANGED <<probe, secret, now, ticks, configFile, pendingPayments>>

\* the order call of a waiting request returns and the handler runs to its response
CrossmintReply(replies) ==
    /\ \E i \in 1..Len(reqs), reply \in replies :
          /\ reqs[i].pc = "awaiting"
          /\ LET out == purchaseResume(reqs[i], i, reply, ReplyData(reply, i),
                                       idempotencyCache, pendingPayments, now,
                                       Len(reqs))
             IN  /\ reqs' = [reqs EXCEPT ![i] = out.request]
                 /\ idempotencyCache' = out.cache
                 /\ pendingPayments' = out.pending
    /\ UNCHANGED <<probe, secret, now, ticks, productCatalog, configFile>>

\* Date.now() advances
Tick ==
    /\ ticks < MaxTicks
    /\ \E d \in TickSteps : now' = now + d
    /\ ticks' = ticks + 1
    /\ UNCHANGED <<probe, secret, productCatalog, configFile, idempotencyCache, pendingPayments, reqs>>

\* the setInterval callback with the comparison made strict
reapIdempotencyCache_Strict(cache, t) ==
    [k \in {x \in DOMAIN cache : ~(t - cache[x].timestamp > RETENTION_MS)} |-> cache[k]]

\* the body of the setInterval callback at time t: the cache without its
\* expired records
reapIdempotencyCache(cache, t) ==
    [k \in {x \in DOMAIN cache : ~(t - cache[x].timestamp >= RETENTION_MS)} |-> cache[k]]

\* the setInterval callback: every expired record is deleted
ReapExpired ==
    /\ now >= REAP_INTERVAL_MS
    /\ idempotencyCache' = reapIdempotencyCache(idempotencyCache, now)
    /\ UNCHANGED <<probe, secret, now, ticks, productCatalog, configFile, pendingPayments, reqs>>

Init ==
    /\ probe = [op |-> "idle"]
    /\ secret = SECRET_A
    /\ ServerIdle

Next ==
    \/ PurchaseArrive(CoreBodies, MaxRequests)
    \/ CrossmintReply(CoreReplies)
    \/ Tick
    \/ ReapExpired

Spec == Init /\ [][Next]_vars

(***************************************************************************)
(* Specification SpecValidate: every kind of token and signature, with and *)
(* without a price ceiling, submitted to POST /purchase                    *)
(***************************************************************************)
MaxWideRequests == 1

ValidateNext ==
    \/ PurchaseArrive(WideBodies, MaxWideRequests)
    \/ CrossmintReply(CrossmintReplies)

SpecValidate == Init /\ [][ValidateNext]_vars

(***************************************************************************)
(* Specification SpecReaper: the ledger under the timer of the reaper.     *)
(* The timer fires every REAP_INTERVAL_MS; time does not pass a firing     *)
(* instant before the callback has run.  probe.nextReap is the next firing *)
(* instant, probe.reaped the records the last callback deleted.            *)
(***************************************************************************)
MaxReaps == 3
MaxReaperRequests == 2

ReaperBodies ==
    {b \in CoreBodies :
        /\ b.idempotencyKey = "K1"
        /\ <<b.blob, b.sig>> = <<"offer", "valid">>}

ReaperInit ==
    /\ probe = [op |-> "timer", nextReap |-> REAP_INTERVAL_MS, fired |-> 0, reaped |-> {}]
    /\ secret = SECRET_A
    /\ ServerIdle

\* Date.now() advances: to just after the last firing instant, or to the next one
Elapse ==
    /\ probe.fired < MaxReaps
    /\ \E t \in {probe.nextReap - REAP_INTERVAL_MS + 1, probe.nextReap} :
          /\ t > now
          /\ now' = t
    /\ UNCHANGED <<probe, secret, ticks, productCatalog, configFile, idempotencyCache, pendingPayments,
                   reqs>>

\* the timer fires: the setInterval callback runs
ReapTimer ==
    /\ probe.fired < MaxReaps
    /\ now = probe.nextReap
    /\ idempotencyCache' = reapIdempotencyCache(idempotencyCache, now)
    /\ probe' = [op |-> "timer", nextReap |-> probe.nextReap + REAP_INTERVAL_MS,
                 fired |-> probe.fired + 1,
                 reaped |-> {[key |-> k, record |-> idempotencyCache[k], at |-> now,
                              lookup |-> checkIdempotency(idempotencyCache, k, now).result] :
                                 k \in DOMAIN idempotencyCache
                                          \ DOMAIN reapIdempotencyCache(idempotencyCache, now)}]
    /\ UNCHANGED <<secret, now, ticks, productCatalog, configFile, pendingPayments, reqs>>

ReaperNext ==
    \/ PurchaseArrive(ReaperBodies, MaxReaperRequests)
    \/ CrossmintReply(CoreReplies)
    \/ Elapse
    \/ ReapTimer

SpecReaper == ReaperInit /\ [][ReaperNext]_vars

(***************************************************************************)
(* Specification SpecRetry: one purchase submitted again and again under   *)
(* one key, the submissions overlapping or not, with every outcome of the  *)
(* order call                                                              *)
(***************************************************************************)
MaxRetryRequests == 3

RetryBodies ==
    {b \in CoreBodies :
        b.idempotencyKey = "K1" /\ b.blob = "offer" /\ b.sig = "valid"}

RetryNext ==
    \/ PurchaseArrive(RetryBodies, MaxRetryRequests)
    \/ CrossmintReply(CrossmintReplies)
    \/ Tick

SpecRetry == Init /\ [][RetryNext]_vars

(***************************************************************************)
(* Specification SpecResponse: purchases of a valid offer whose order call *)
(* returns every body of the model                                         *)
(***************************************************************************)
MaxResponseRequests == 1
MaxOrderIds == 2

FieldValues == {JS_UNDEFINED, JS_NULL, JS_EMPTY_STRING, 0} \cup (1..MaxOrderIds)
ResponseData ==
    {ResponseObject(a, b, c) : a \in FieldValues, b \in FieldValues, c \in FieldValues}
        \cup {ResponsePrimitive("object", FALSE)}
        \cup {ResponsePrimitive(type, truthy) :
                type \in {"string", "number", "boolean"}, truthy \in BOOLEAN}

ResponseBodies ==
    {b \in CoreBodies :
        b.idempotencyKey = "K1" /\ b.blob = "offer" /\ b.sig = "valid"}

\* the order call of a request returns with a success status and a JSON body
CrossmintRespond ==
    /\ \E i \in 1..Len(reqs), data \in ResponseData :
          /\ reqs[i].pc = "awaiting"
          /\ LET out == purchaseResume(reqs[i], i, "response", data,
                                       idempotencyCache, pendingPayments, now,
                                       Len(reqs))
             IN  /\ reqs' = [reqs EXCEPT ![i] = out.request]
                 /\ idempotencyCache' = out.cache
                 /\ pendingPayments' = out.pending
    /\ UNCHANGED <<probe, secret, now, ticks, productCatalog, configFile>>

ResponseNext ==
    \/ PurchaseArrive(ResponseBodies, MaxResponseRequests)
    \/ CrossmintRespond

SpecResponse == Init /\ [][ResponseNext]_vars

(***************************************************************************)
(* Specification SpecCatalog: purchases against every catalog that         *)
(* config/product-catalog.json can hold, and against the built-in one      *)
(***************************************************************************)
MaxCatalogLen == 4
MaxCatalogRequests == 1

CatalogEntries == [asin : Asins, price : {16999}]
CatalogFiles ==
    [loaded : {TRUE}, defaultASIN : Asins,
     products : UNION {[1..n -> CatalogEntries] : n \in 0..MaxCatalogLen}]

\* correctly signed offers: of the identifier of the built-in catalog, of another
\* identifier, without identifier
CatalogBodies ==
    {b \in AllBodies :
        /\ b.blob \in {"offer", "unknown", "noAsin"}
        /\ b.sig = "valid"
        /\ b.idempotencyKey = NoKey
        /\ b.priceExpectation = NoCeiling
        /\ b.quantity = 1}

CatalogInit ==
    /\ probe = [op |-> "idle"]
    /\ secret = SECRET_A
    /\ now = 0
    /\ ticks = 0
    /\ productCatalog = NullCatalog
    /\ configFile \in CatalogFiles \cup BrokenFiles
    /\ idempotencyCache = EmptyMap
    /\ pendingPayments = EmptyMap
    /\ reqs = <<>>

CatalogNext ==
    \/ PurchaseArrive(CatalogBodies, MaxCatalogRequests)
    \/ CrossmintReply(CoreReplies)

SpecCatalog == CatalogInit /\ [][CatalogNext]_vars

(***************************************************************************)
(* Specification SpecTotals: purchases of one offer in every quantity,     *)
(* with and without idempotency key                                        *)
(***************************************************************************)
MaxTotalsRequests == 2

TotalsBodies ==
    {b \in AllBodies :
        /\ b.blob = "offer"
        /\ b.sig = "valid"
        /\ b.idempotencyKey \in {NoKey, "K1"}
        /\ b.priceExpectation = NoCeiling}

TotalsNext ==
    \/ PurchaseArrive(TotalsBodies, MaxTotalsRequests)
    \/ CrossmintReply(CoreReplies)

SpecTotals == Init /\ [][TotalsNext]_vars

(***************************************************************************)
(* Specification SpecErrors: requests that fail at each step of the        *)
(* handler, one after the other or overlapping                             *)
(***************************************************************************)
MaxErrorRequests == 2

\* bad signatures, an undecodable token, tokens that raise exceptions, a catalog
\* miss, a price above the ceiling, and a valid offer for the order call
ErrorBodies ==
    {b \in AllBodies :
        /\ b.idempotencyKey = NoKey
        /\ b.quantity = 1
        /\ \/ /\ b.priceExpectation = NoCeiling
              /\ <<b.blob, b.sig>> \in
                    {<<"offer", "valid">>, <<"offer", "flipped">>, <<"offer", "short">>,
                     <<"truncated", "valid">>, <<"null", "valid">>,
                     <<"unknown", "valid">>}
           \/ /\ b.priceExpectation = 16998
              /\ <<b.blob, b.sig>> = <<"offer", "valid">>}

ErrorsNext ==
    \/ PurchaseArrive(ErrorBodies, MaxErrorRequests)
    \/ CrossmintReply(CrossmintReplies)

SpecErrors == Init /\ [][ErrorsNext]_vars

(***************************************************************************)
(* Specification SpecStartup: the process from its start, under every      *)
(* environment.  An environment variable is a text, "" when unset or       *)
(* empty; the signing secret is the variable secret, Absent when unset.    *)
(* probe.phase is "starting", "exited" (process.exit) or "listening".      *)
(***************************************************************************)
MaxStartupRequests == 1

EnvTexts == {"", "set"}
Environments ==
    [SERP_API_KEY : EnvTexts, EXACT_RECIPIENT : EnvTexts, FACILITATOR_URL : EnvTexts,
     EXACT_ASSET : EnvTexts, EXACT_CHAIN : EnvTexts]

\* validateEnvironment: the required variables that are missing
validateEnvironment(env, signingSecret) ==
    (IF env.SERP_API_KEY = "" THEN {"SERP_API_KEY"} ELSE {})
        \cup (IF signingSecret = Absent THEN {"PRODUCT_SIGNING_SECRET"} ELSE {})

StartupBodies ==
    {b \in CoreBodies :
        b.idempotencyKey = NoKey /\ b.blob = "offer" /\ b.sig \in {"valid", "flipped"}}

StartupInit ==
    /\ probe \in [op : {"startup"}, env : Environments, phase : {"starting"}]
    /\ secret \in {SECRET_A, Absent}
    /\ ServerIdle

\* the module runs from its first line to app.listen, or to process.exit(1)
Startup ==
    /\ probe.phase = "starting"
    /\ probe' = [probe EXCEPT !.phase =
                    IF validateEnvironment(probe.env, secret) # {} THEN "exited"
                    ELSE "listening"]
    /\ UNCHANGED <<secret, serverVars>>

\* the listening process takes a request
StartupServe ==
    /\ probe.phase = "listening"
    /\ PurchaseArrive(StartupBodies, MaxStartupRequests)

StartupReply ==
    /\ probe.phase = "listening"
    /\ CrossmintReply(CoreReplies)

StartupNext == Startup \/ StartupServe \/ StartupReply

SpecStartup == StartupInit /\ [][StartupNext]_vars

(***************************************************************************)
(* Specification SpecCodec: the codec applied to every offer of the model  *)
(***************************************************************************)
CodecInit ==
    /\ probe = [op |-> "idle"]
    /\ secret = SECRET_A
    /\ ServerIdle

\* signProduct's encoding of an offer
Encode ==
    /\ probe.op = "idle"
    /\ \E x \in Offers :
          probe' = [op |-> "encoded", offer |-> x, token |-> encodeProduct(x)]
    /\ UNCHANGED <<secret, serverVars>>

\* decodeProduct applied to the token just produced
Decode ==
    /\ probe.op = "encoded"
    /\ probe' = [op |-> "decoded", offer |-> probe.offer, token |-> probe.token,
                 decoded |-> decodeProduct(probe.token)]
    /\ UNCHANGED <<secret, serverVars>>

CodecNext == Encode \/ Decode

SpecCodec == CodecInit /\ [][CodecNext]_vars

(***************************************************************************)
(* Specification SpecAuth: signing and verifying while the secret changes  *)
(***************************************************************************)
AuthInit ==
    /\ probe = [op |-> "idle"]
    /\ secret \in Secrets
    /\ ServerIdle

\* signProduct under the current secret
Sign ==
    /\ probe.op = "idle"
    /\ \E x \in Offers :
          LET signed == signProduct(x, secret)
          IN  probe' = [op |-> "signed", token |-> signed.productBlob,
                        signature |-> signed.signature, signedUnder |-> secret]
    /\ UNCHANGED <<secret, serverVars>>

\* the operator restarts the process with another PRODUCT_SIGNING_SECRET
RotateSecret ==
    /\ \E k \in Secrets \ {secret} : secret' = k
    /\ UNCHANGED <<probe, serverVars>>

\* verifyProductSignature of the signed pair under the current secret
Verify ==
    /\ probe.op \in {"signed", "verified"}
    /\ probe' = [op |-> "verified", token |-> probe.token,
                 signature |-> probe.signature, signedUnder |-> probe.signedUnder,
                 verifiedUnder |-> secret,
                 verdict |-> verifyProductSignature(probe.token, probe.signature, secret)]
    /\ UNCHANGED <<secret, serverVars>>

AuthNext == Sign \/ RotateSecret \/ Verify

SpecAuth == AuthInit /\ [][AuthNext]_vars

(***************************************************************************)
(* The requests of a run, as the claims speak of them                      *)
(***************************************************************************)
Requests == 1..Len(reqs)
Done(i) == reqs[i].pc = "done"
HasStep(i, s) == \E n \in 1..Len(reqs[i].steps) : reqs[i].steps[n] = s
Key(i) == reqs[i].body.idempotencyKey
Keyed(i) == Key(i) # NoKey
\* the body of request i carries a productBlob and a signature
HasBoth(i) ==
    /\ HasText[reqs[i].body.blob][reqs[i].body.sig].blob
    /\ HasText[reqs[i].body.blob][reqs[i].body.sig].sig
\* request j arrived after request i had responded
ArrivedAfter(j, i) == Done(i) /\ j > reqs[i].finishedAfter
\* the same productBlob, signature and non-empty idempotencyKey
SameSubmission(i, j) ==
    /\ Keyed(i)
    /\ Key(i) = Key(j)
    /\ reqs[i].body.blob = reqs[j].body.blob
    /\ reqs[i].body.sig = reqs[j].body.sig
\* request i ended by storing its own result under its key: it was confirmed,
\* or an exception took it to the catch block
StoredOwn(i) ==
    /\ Done(i)
    /\ Keyed(i)
    /\ reqs[i].steps[Len(reqs[i].steps)] \in {"respond", "catch"}
\* j is a second submission of i, less than 3600 s after i completed
Resubmitted(i, j) ==
    /\ SameSubmission(i, j)
    /\ ArrivedAfter(j, i)
    /\ Done(j)
    /\ reqs[j].arrivedAt - reqs[i].finishedAt < RETENTION_MS
\* the order calls made by the requests of S, and the keys they carry
OrderCalls(S) == Cardinality({i \in S : HasStep(i, "order")})
KeysOf(S) == {Key(i) : i \in S} \ {NoKey}
\* everything so far happened inside one retention window
InOneWindow == reqs = <<>> \/ now - reqs[1].arrivedAt < RETENTION_MS
\* no request arrived while an earlier request with the same key was in flight
NoOverlap ==
    \A i, j \in Requests : (i < j /\ Keyed(i) /\ Key(i) = Key(j)) => ArrivedAfter(j, i)

(***************************************************************************)
(* C1  as stated: a second submission of the same productBlob, signature   *)
(* and key, less than 3600 s after the first completed, gets the result    *)
(* the first got, whatever that was.  Refuted: a rejection returned before *)
(* the catch block is not stored and the second submission is judged anew. *)
(***************************************************************************)
C1_SecondResultIdentical ==
    \A i, j \in Requests : Resubmitted(i, j) => reqs[j].result = reqs[i].result

(***************************************************************************)
(* C1  amended: the second submission gets the result of the first when    *)
(* the first stored its result (it was confirmed, or failed with an        *)
(* exception) and no other request stored a result under the key between   *)
(* the first's completion and the second's arrival.                        *)
(***************************************************************************)
C1_StoredResultReplayed ==
    \A i, j \in Requests :
        (/\ Resubmitted(i, j)
         /\ StoredOwn(i)
         /\ ~\E k \in Requests \ {i, j} :
                /\ Key(k) = Key(i)
                /\ StoredOwn(k)
                /\ reqs[i].finishedAfter <= reqs[k].finishedAfter
                /\ reqs[k].finishedAfter < j)
        => reqs[j].result = reqs[i].result

\* a confirmed purchase has been submitted again and answered from the ledger
C1_Witness ==
    \E i, j \in Requests :
        /\ Resubmitted(i, j)
        /\ StoredOwn(i)
        /\ reqs[i].result.ok
        /\ reqs[j].seen.hit
        /\ reqs[j].result = reqs[i].result

(***************************************************************************)
(* C2  as stated: inside one retention window the order calls are at most  *)
(* as many as the distinct idempotency keys of the requests.  Refuted: a   *)
(* request without key calls the collaborator, and so do two requests with *)
(* one key that are in flight together.                                    *)
(***************************************************************************)
C2_CallsAtMostKeys ==
    InOneWindow => OrderCalls(Requests) <= Cardinality(KeysOf(Requests))

(***************************************************************************)
(* C2  amended: inside one retention window, when no request arrives while *)
(* an earlier request with the same key is in flight, the order calls made *)
(* by the requests that carry a key are at most as many as their keys.     *)
(***************************************************************************)
C2_KeyedSequentialCallsAtMostKeys ==
    (InOneWindow /\ NoOverlap) =>
        OrderCalls({i \in Requests : Keyed(i)}) <= Cardinality(KeysOf(Requests))

\* a purchase that called the collaborator has been retried under its key, and
\* the retry was answered from the ledger
C2_Witness ==
    /\ InOneWindow
    /\ NoOverlap
    /\ \E i, j \in Requests :
          /\ i < j
          /\ Keyed(i)
          /\ Key(i) = Key(j)
          /\ HasStep(i, "order")
          /\ reqs[j].body.blob = "offer"
          /\ reqs[j].body.sig = "valid"
          /\ Done(j)
          /\ ~HasStep(j, "order")

(***************************************************************************)
(* C3  A request reaches the order call only after verifying the           *)
(* signature, decoding the token, validating the identifier against the    *)
(* catalog and checking the price ceiling, in this order, each with        *)
(* success; a request that fails one of them makes no order call.          *)
(***************************************************************************)
C3_OrderOnlyAfterAllChecks ==
    \A i \in Requests :
        LET body == reqs[i].body
            \* decodeProduct and verifyProductSignature of the texts submitted
            product == DecodeMemo[body.blob]
            verdict == VerifyMemo[secret][body.blob][body.sig]
        IN  HasStep(i, "order") =>
                /\ \E n \in 1..Len(reqs[i].steps) :
                      SubSeq(reqs[i].steps, n, n + 4) =
                          <<"verify", "decode", "catalog", "price", "order">>
                /\ verdict = [threw |-> FALSE, value |-> TRUE]
                /\ product \notin {DecodeError, JNull}
                /\ validateAsin(product.asin, productCatalog, configFile).valid
                /\ product.price # AbsentPrice
                /\ \/ body.priceExpectation = NoCeiling
                   \/ product.price.amount <= body.priceExpectation

\* an offer submitted with a price ceiling it does not exceed has been ordered
C3_Witness ==
    \E i \in Requests :
        /\ HasStep(i, "order")
        /\ reqs[i].body.priceExpectation # NoCeiling
        /\ Done(i)
        /\ reqs[i].result.ok

(***************************************************************************)
(* C4  No lock per key: a request that arrives while another request with  *)
(* the same key awaits the order call finds no ledger record, makes its    *)
(* own order call if its offer is valid, and both are confirmed when both  *)
(* orders are created.                                                     *)
(***************************************************************************)
C4_NoPerKeyLock ==
    \A i, j \in Requests :
        (/\ i < j
         /\ Keyed(i)
         /\ Key(i) = Key(j)
         /\ HasStep(i, "order")
         /\ ~ArrivedAfter(j, i)
         /\ HasBoth(j)
         /\ ~\E k \in Requests \ {i, j} :
                /\ Key(k) = Key(i)
                /\ StoredOwn(k)
                /\ reqs[k].finishedAfter < j)
        => /\ reqs[j].seen.held = NoRecord
           /\ ~reqs[j].seen.hit
           /\ (reqs[j].body.blob = "offer" /\ reqs[j].body.sig = "valid")
                 => HasStep(j, "order")
           /\ (reqs[i].reply = "created" /\ reqs[j].reply = "created")
                 => /\ reqs[i].result.ok
                    /\ reqs[j].result.ok
                    /\ reqs[i].result.orderId # reqs[j].result.orderId

\* two requests with one key were in flight together, both called the
\* collaborator and both were confirmed
C4_Witness ==
    \E i, j \in Requests :
        /\ i < j
        /\ Keyed(i)
        /\ Key(i) = Key(j)
        /\ j <= reqs[i].finishedAfter
        /\ Done(i) /\ Done(j)
        /\ reqs[i].seen.held = NoRecord /\ reqs[j].seen.held = NoRecord
        /\ HasStep(i, "order") /\ HasStep(j, "order")
        /\ reqs[i].result.ok /\ reqs[j].result.ok

(***************************************************************************)
(* C5  as stated: a signature that is not the tag of the token under the   *)
(* current secret, malformed or of the wrong length included, makes        *)
(* verification return false without an exception and the request end      *)
(* with stage "auth", code INVALID_SIGNATURE.  Refuted by the code: for a  *)
(* signature of another length timingSafeEqual raises RangeError.          *)
(***************************************************************************)
C5_WrongSignatureRejectedByAuth ==
    \A i \in Requests :
        LET body == reqs[i].body
            verdict == verifyProductSignature(BlobText[body.blob],
                                              SignatureText[body.blob][body.sig], secret)
        IN  (/\ Done(i)
             /\ HasBoth(i)
             /\ ~reqs[i].seen.hit
             /\ SignatureText[body.blob][body.sig]
                   # HexEncode(createHmac(secret, BlobText[body.blob])))
            => /\ verdict = [threw |-> FALSE, value |-> FALSE]
               /\ reqs[i].result.stage = "auth"
               /\ reqs[i].result.code = "INVALID_SIGNATURE"

\* a request with a signature of one byte has ended in the catch block
C5_Witness ==
    \E i \in Requests :
        /\ Done(i)
        /\ reqs[i].body.sig = "short"
        /\ HasStep(i, "catch")
        /\ reqs[i].status = 500
        /\ reqs[i].result.stage = "unknown"
        /\ reqs[i].result.code = "INTERNAL_ERROR"

(***************************************************************************)
(* C6  verify(t, sign(t, k)) is true while k is the current secret, and    *)
(* false (not an exception) as soon as the secret is another value.        *)
(***************************************************************************)
C6_VerifyUnderCurrentSecretOnly ==
    probe.op = "verified" =>
        /\ ~probe.verdict.threw
        /\ probe.verdict.value = (probe.verifiedUnder = probe.signedUnder)

\* a pair signed under one secret has been verified after the secret changed
C6_Witness ==
    /\ probe.op = "verified"
    /\ probe.verifiedUnder # probe.signedUnder
    /\ probe.verdict = [threw |-> FALSE, value |-> FALSE]

(***************************************************************************)
(* C7  For every valid offer x: decodeProduct of the token of x is x, the  *)
(* token is the same each time x is encoded, and the token holds none of   *)
(* the characters '+', '/', '='.                                           *)
(***************************************************************************)
C7_CodecRoundTrip ==
    /\ probe.op \in {"encoded", "decoded"} =>
          /\ \A i \in 1..Len(probe.token) :
                probe.token[i] \notin {CH_PLUS, CH_SLASH, CH_EQ}
          /\ encodeProduct(probe.offer) = probe.token
    /\ probe.op = "decoded" => probe.decoded = probe.offer

\* an offer whose standard base64 form holds '+' and needs padding has been
\* encoded and decoded
C7_Witness ==
    /\ probe.op = "decoded"
    /\ LET std == ToBase64(Utf8Encode(JSON_stringify(probe.offer)))
       IN  /\ \E i \in 1..Len(std) : std[i] = CH_PLUS
           /\ \E i \in 1..Len(std) : std[i] = CH_EQ
    /\ probe.decoded = probe.offer

(***************************************************************************)
(* C8  as stated: a correctly signed token that does not decode to a       *)
(* structurally valid offer (a character outside the alphabet, padding,    *)
(* text that is no serialization, null, a missing price) is rejected with  *)
(* stage "validation", code INVALID_PRODUCT_BLOB, before catalog           *)
(* validation.  Refuted by the code.                                       *)
(***************************************************************************)
MalformedBlobs == {"truncated", "badChar", "badPad", "null", "noPrice"}

C8_MalformedTokenRejectedByValidation ==
    \A i \in Requests :
        (/\ reqs[i].body.blob \in MalformedBlobs
         /\ reqs[i].body.sig = "valid"
         /\ ~reqs[i].seen.hit)
        => /\ ~HasStep(i, "catalog")
           /\ Done(i)
           /\ reqs[i].result.stage = "validation"
           /\ reqs[i].result.code = "INVALID_PRODUCT_BLOB"

\* a signed token without price has passed catalog validation and ended in the
\* catch block
C8_Witness ==
    \E i \in Requests :
        /\ reqs[i].body.blob = "noPrice"
        /\ reqs[i].body.sig = "valid"
        /\ HasStep(i, "catalog")
        /\ HasStep(i, "catch")
        /\ reqs[i].result.stage = "unknown"
        /\ reqs[i].result.code = "INTERNAL_ERROR"

\* the ledger held a live record for the key of request i when it arrived
LiveRecordHeld(i) ==
    /\ Keyed(i)
    /\ reqs[i].seen.held # NoRecord
    /\ reqs[i].arrivedAt - reqs[i].seen.held.timestamp < RETENTION_MS
\* the steps of the validation and of the fulfillment
WorkSteps == {"verify", "decode", "catalog", "price", "order"}

(***************************************************************************)
(* C9  as stated: a request whose key has a live record in the ledger      *)
(* returns the stored result and does nothing else, whatever token and     *)
(* signature it submitted.  Refuted: a body without productBlob or         *)
(* signature is rejected before the ledger is read.                        *)
(***************************************************************************)
C9_LiveRecordReturned ==
    \A i \in Requests :
        LiveRecordHeld(i) =>
            /\ Done(i)
            /\ reqs[i].result = reqs[i].seen.held.result
            /\ \A s \in WorkSteps : ~HasStep(i, s)

(***************************************************************************)
(* C9  amended: a request that carries a productBlob and a signature and   *)
(* whose key has a live record in the ledger returns the stored result     *)
(* right after the check of the required fields, without verification,     *)
(* decoding, catalog validation, price check or order call.                *)
(***************************************************************************)
C9_LiveRecordReturnedWhenFieldsPresent ==
    \A i \in Requests :
        (LiveRecordHeld(i) /\ HasBoth(i)) =>
            /\ Done(i)
            /\ reqs[i].status = 200
            /\ reqs[i].result = reqs[i].seen.held.result
            /\ reqs[i].steps = <<"required", "idempotency">>

\* a request with a signature that does not verify was answered with the
\* confirmation stored under its key
C9_Witness ==
    \E i \in Requests :
        /\ LiveRecordHeld(i)
        /\ reqs[i].body.sig = "flipped"
        /\ reqs[i].seen.hit
        /\ reqs[i].result.ok

(***************************************************************************)
(* C10  checkIdempotency returns no record whose age is 3,600,000 ms or    *)
(* more: it answers null and deletes the record; a younger record is       *)
(* returned.                                                               *)
(***************************************************************************)
C10_ExpiredRecordNeverReturned ==
    \A i \in Requests :
        (Keyed(i) /\ HasBoth(i) /\ reqs[i].seen.held # NoRecord) =>
            IF reqs[i].arrivedAt - reqs[i].seen.held.timestamp >= RETENTION_MS
            THEN /\ ~reqs[i].seen.hit
                 /\ reqs[i].seen.evicted
                 /\ reqs[i].result # reqs[i].seen.held.result
            ELSE /\ reqs[i].seen.hit
                 /\ ~reqs[i].seen.evicted
                 /\ reqs[i].result = reqs[i].seen.held.result

\* a request arrived exactly 3,600,000 ms after the record of its key was
\* stored, and the lookup deleted the record
C10_Witness ==
    \E i \in Requests :
        /\ Keyed(i)
        /\ reqs[i].seen.held # NoRecord
        /\ reqs[i].arrivedAt - reqs[i].seen.held.timestamp = RETENTION_MS
        /\ reqs[i].seen.evicted
        /\ ~reqs[i].seen.hit

(***************************************************************************)
(* C11  Under the timer of the reaper every ledger record is gone before   *)
(* its age reaches the retention window plus one reaper interval, without  *)
(* any request reading it; and every record the reaper deletes is one that *)
(* checkIdempotency no longer returns (its age is 3,600,000 ms or more).   *)
(***************************************************************************)
C11_ReaperRemovesExpiredOnly ==
    /\ \A k \in DOMAIN idempotencyCache :
          now - idempotencyCache[k].timestamp < RETENTION_MS + REAP_INTERVAL_MS
    /\ probe.op = "timer" =>
          \A d \in probe.reaped :
              /\ d.at - d.record.timestamp >= RETENTION_MS
              /\ d.lookup = NoResult

\* the reaper has deleted a record that no request had read since it was stored,
\* one millisecond before the bound
C11_Witness ==
    /\ probe.op = "timer"
    /\ \E d \in probe.reaped :
          /\ d.at - d.record.timestamp = RETENTION_MS + REAP_INTERVAL_MS - 1
          /\ d.key \notin DOMAIN idempotencyCache
          /\ \A i \in Requests : reqs[i].arrivedAt <= d.record.timestamp

(***************************************************************************)
(* C12  A request without idempotency key (absent or empty) is never       *)
(* answered from the ledger, and no step of its handling (its arrival, the *)
(* return of its order call) changes the ledger, whatever its outcome.     *)
(***************************************************************************)
C12_KeylessLeavesLedgerAlone ==
    [][\A i \in 1..Len(reqs') :
          (/\ reqs'[i].body.idempotencyKey = NoKey
           /\ (i > Len(reqs) \/ reqs'[i] # reqs[i]))
          => /\ idempotencyCache' = idempotencyCache
             /\ ~reqs'[i].seen.hit
             /\ reqs'[i].seen.held = NoRecord]_vars

\* a request without key has called the collaborator and got its response, while
\* the ledger holds the record of an earlier request with a key, and nothing else
C12_Witness ==
    \E i, k \in Requests :
        /\ ~Keyed(i) /\ Done(i) /\ HasStep(i, "order")
        /\ Keyed(k) /\ k < i /\ StoredOwn(k)
        /\ DOMAIN idempotencyCache = {Key(k)}
        /\ idempotencyCache[Key(k)].result = reqs[k].result

\* the order call of request i has returned with a response: an order, a
\* non-success status, or a body without order identifier
CallReturned(i) ==
    Done(i) /\ reqs[i].reply \in {"created", "http_error", "no_order_id"}

(***************************************************************************)
(* C13  as stated: once the order call of a request with key K has         *)
(* returned, a later retry with K inside the window replays the outcome of *)
(* that request and makes no order call.  Refuted: when another request    *)
(* with K was in flight at the same time and finished later, the retry     *)
(* replays the outcome of that one.                                        *)
(***************************************************************************)
C13_RetryReplaysOutcome ==
    \A i, j \in Requests :
        (CallReturned(i) /\ Resubmitted(i, j))
        => /\ reqs[j].result = reqs[i].result
           /\ ~HasStep(j, "order")

(***************************************************************************)
(* C13  amended: when the order call of a request with key K returns, the  *)
(* handler stores under K the result it returns, stamped with the time of  *)
(* the store; a later retry with K inside the window makes no order call,  *)
(* and replays that outcome when no other request stored under K between   *)
(* the return and the retry.                                               *)
(***************************************************************************)
C13_StoredOnReturnAndReplayed ==
    /\ [][\A i \in Requests :
            (/\ Keyed(i)
             /\ reqs[i].pc = "awaiting"
             /\ reqs'[i].pc = "done")
            => /\ Key(i) \in DOMAIN idempotencyCache'
               /\ idempotencyCache'[Key(i)] =
                     [result |-> reqs'[i].result, timestamp |-> now]]_vars
    /\ [](\A i, j \in Requests :
            (CallReturned(i) /\ Resubmitted(i, j))
            => /\ ~HasStep(j, "order")
               /\ reqs[j].seen.hit
               /\ (~\E k \in Requests \ {i, j} :
                       /\ Key(k) = Key(i)
                       /\ StoredOwn(k)
                       /\ reqs[i].finishedAfter <= reqs[k].finishedAfter
                       /\ reqs[k].finishedAfter < j)
                     => reqs[j].result = reqs[i].result)

\* an order call came back with a non-success status some time after the request
\* arrived, and a retry was answered with the stored rejection
C13_Witness ==
    \E i, j \in Requests :
        /\ CallReturned(i)
        /\ reqs[i].reply = "http_error"
        /\ reqs[i].finishedAt > reqs[i].arrivedAt
        /\ Resubmitted(i, j)
        /\ reqs[j].seen.held = [result |-> reqs[i].result, timestamp |-> reqs[i].finishedAt]
        /\ reqs[j].result = reqs[i].result
        /\ ~HasStep(j, "order")

(***************************************************************************)
(* C14  as stated: a failed order call is classified by its cause: a       *)
(* transport failure or a non-success HTTP status gives stage              *)
(* "crossmint.createOrder", a response without order identifier gives      *)
(* stage "crossmint.validation", and no failure gives another stage.       *)
(* Refuted by the code: a failed fetch is classified "unknown".            *)
(***************************************************************************)
C14_DownstreamFailureClassified ==
    \A i \in Requests :
        Done(i) =>
            /\ reqs[i].reply \in {"transport_error", "http_error"}
                  => reqs[i].result.stage = "crossmint.createOrder"
            /\ reqs[i].reply = "no_order_id"
                  => reqs[i].result.stage = "crossmint.validation"

\* the fetch of an order call failed and the request was answered 500, stage
\* "unknown"
C14_Witness ==
    \E i \in Requests :
        /\ Done(i)
        /\ reqs[i].reply = "transport_error"
        /\ reqs[i].status = 500
        /\ reqs[i].result.stage = "unknown"
        /\ reqs[i].result.code = "INTERNAL_ERROR"
        /\ reqs[i].result.message = M_FETCH

(***************************************************************************)
(* C15  The order identifier of a fulfillment response is the first truthy *)
(* of its fields orderId, id, order_id, in that order: the request is then *)
(* confirmed with that identifier and its payment record holds it.  A body *)
(* with none of them, or one that is not an object, is answered with a     *)
(* rejection of stage "crossmint.validation" (the request is answered, and *)
(* not confirmed), and no payment record is written for it.                *)
(***************************************************************************)
C15_FirstTruthyIdentifierOrValidationFailure ==
    \A i \in Requests :
        (Done(i) /\ reqs[i].reply = "response") =>
            LET d == reqs[i].data
                isObject == d.truthy /\ d.type = "object"
                named == <<d.orderId, d.id, d.order_id>>
                present == {n \in 1..3 : named[n] > 0}
                first == named[CHOOSE n \in present : \A m \in present : n <= m]
            IN  IF isObject /\ present # {} THEN
                    /\ reqs[i].status = 200
                    /\ reqs[i].result.ok
                    /\ reqs[i].result.orderId = first
                    /\ i \in DOMAIN pendingPayments
                    /\ pendingPayments[i].orderId = first
                ELSE
                    /\ reqs[i].status = 502
                    /\ ~reqs[i].result.ok
                    /\ reqs[i].result.stage = "crossmint.validation"
                    /\ reqs[i].result.code = "CROSSMINT_INVALID_RESPONSE"
                    /\ i \notin DOMAIN pendingPayments

\* a body whose orderId is the empty string and whose id and order_id are two
\* different identifiers confirmed the order under the identifier of id
C15_Witness ==
    \E i \in Requests :
        /\ Done(i)
        /\ reqs[i].reply = "response"
        /\ reqs[i].data.type = "object" /\ reqs[i].data.truthy
        /\ reqs[i].data.orderId = JS_EMPTY_STRING
        /\ reqs[i].data.id = 2
        /\ reqs[i].data.order_id = 1
        /\ reqs[i].result.orderId = 2
        /\ pendingPayments[i].orderId = 2

(***************************************************************************)
(* C16  as stated: validateAsin is a pure function of the identifier and   *)
(* the catalog: a request whose offer names an identifier of the catalog   *)
(* gets the catalog's entry for that identifier, and no call of            *)
(* validateAsin changes the catalog.  Refuted by the code: the first call  *)
(* finds the catalog variable null and loads the catalog into it.          *)
(***************************************************************************)
C16_ValidateAsinPure ==
    [][\A i \in 1..Len(reqs') :
          (i > Len(reqs) /\ HasStep(i, "catalog")') =>
              /\ productCatalog' = productCatalog
              /\ HasStep(i, "order")' =>
                    /\ reqs'[i].locals.validatedAsin = reqs'[i].locals.product.asin
                    /\ reqs'[i].locals.catalogProduct.asin = reqs'[i].locals.product.asin
                    /\ \E n \in 1..Len(productCatalog.products) :
                          productCatalog.products[n] = reqs'[i].locals.catalogProduct]_vars

\* a request validated an identifier of the catalog, got the catalog's entry,
\* and the catalog variable is no longer the null of the start
C16_Witness ==
    \E i \in Requests :
        /\ HasStep(i, "catalog")
        /\ HasStep(i, "order")
        /\ reqs[i].locals.product.asin = ASIN_AIRPODS
        /\ reqs[i].locals.catalogProduct = FallbackCatalog.products[1]
        /\ productCatalog = FallbackCatalog
        /\ productCatalog # NullCatalog

(***************************************************************************)
(* C17  as stated: whatever the catalog, a correctly signed offer without  *)
(* identifier is validated as the default identifier with the catalog's    *)
(* entry for it (reason used_default), and the purchase proceeds to the    *)
(* order call with that entry.  Refuted by the code for a catalog whose    *)
(* default identifier is none of its products.                             *)
(***************************************************************************)
C17_AbsentIdentifierUsesDefaultEntry ==
    \A i \in Requests :
        (reqs[i].body.blob = "noAsin" /\ reqs[i].body.sig = "valid") =>
            /\ HasStep(i, "order")
            /\ reqs[i].locals.validatedAsin = productCatalog.defaultASIN
            /\ reqs[i].locals.catalogProduct # NoProduct
            /\ reqs[i].locals.catalogProduct.asin = productCatalog.defaultASIN
            /\ reqs[i].order.productLocator = AMAZON_PREFIX \o productCatalog.defaultASIN

\* the catalog of the file names a default identifier that is none of its
\* products, and the purchase of an offer without identifier ended in the
\* TypeError of catalogProduct.name, answered 500
C17_Witness ==
    \E i \in Requests :
        /\ reqs[i].body.blob = "noAsin" /\ reqs[i].body.sig = "valid"
        /\ productCatalog = configFile
        /\ Len(productCatalog.products) > 0
        /\ FindProduct(productCatalog.products, productCatalog.defaultASIN) = NoProduct
        /\ Done(i)
        /\ HasStep(i, "catalog") /\ ~HasStep(i, "order")
        /\ reqs[i].status = 500
        /\ reqs[i].result.stage = "unknown"
        /\ reqs[i].result.message = M_TYPE

(***************************************************************************)
(* C18  A correctly signed offer whose identifier is none of the catalog's *)
(* is rejected with stage "catalog.validate", code ASIN_NOT_IN_CATALOG;    *)
(* the rejection suggests at most 3 identifiers, the first ones of the     *)
(* catalog in catalog order; no order call is made for the request.        *)
(***************************************************************************)
C18_UnknownIdentifierRejectedWithSuggestions ==
    \A i \in Requests :
        (/\ reqs[i].body.blob = "unknown"
         /\ reqs[i].body.sig = "valid"
         /\ \A n \in 1..Len(productCatalog.products) :
               productCatalog.products[n].asin # ASIN_UNKNOWN)
        => LET suggestions == reqs[i].result.suggestions
           IN  /\ Done(i)
               /\ reqs[i].status = 400
               /\ reqs[i].result.stage = "catalog.validate"
               /\ reqs[i].result.code = "ASIN_NOT_IN_CATALOG"
               /\ Len(suggestions) <= 3
               /\ Len(suggestions) <= Len(productCatalog.products)
               /\ Len(suggestions) = 3 \/ Len(suggestions) = Len(productCatalog.products)
               /\ \A n \in 1..Len(suggestions) :
                     suggestions[n] = productCatalog.products[n].asin
               /\ ~HasStep(i, "order")
               /\ reqs[i].reply = "none"
               /\ i \notin DOMAIN pendingPayments

\* the offer's identifier is none of the four of the catalog, whose first and
\* second differ; the rejection suggests the first three
C18_Witness ==
    \E i \in Requests :
        /\ reqs[i].body.blob = "unknown" /\ reqs[i].body.sig = "valid"
        /\ Done(i)
        /\ Len(productCatalog.products) = 4
        /\ productCatalog.products[1].asin # productCatalog.products[2].asin
        /\ reqs[i].result.code = "ASIN_NOT_IN_CATALOG"
        /\ reqs[i].result.suggestions =
              <<productCatalog.products[1].asin, productCatalog.products[2].asin,
                productCatalog.products[3].asin>>

(***************************************************************************)
(* C19  A request whose signature verifies and whose token decodes to an   *)
(* offer priced above the price ceiling it supplies makes no order call,   *)
(* and when it comes to the price check it is rejected there with stage    *)
(* "sku.validate", code PRICE_EXCEEDED.  A request that comes to the price *)
(* check with an offer priced at or below its ceiling, or without ceiling, *)
(* is not rejected there: it goes on to the order call.                    *)
(***************************************************************************)
C19_PriceCeilingEnforced ==
    \A i \in Requests :
        LET body == reqs[i].body
            product == DecodeMemo[body.blob]
            verdict == VerifyMemo[secret][body.blob][body.sig]
            ceiling == body.priceExpectation
        IN  (/\ verdict = [threw |-> FALSE, value |-> TRUE]
             /\ product \notin {DecodeError, JNull}
             /\ product.price # AbsentPrice)
            => IF ceiling # NoCeiling /\ product.price.amount > ceiling THEN
                   /\ ~HasStep(i, "order")
                   /\ reqs[i].reply = "none"
                   /\ HasStep(i, "price") =>
                         /\ Done(i)
                         /\ reqs[i].status = 400
                         /\ reqs[i].result.stage = "sku.validate"
                         /\ reqs[i].result.code = "PRICE_EXCEEDED"
               ELSE
                   HasStep(i, "price") =>
                       /\ HasStep(i, "order")
                       /\ Done(i) => reqs[i].result.stage # "sku.validate"

\* an offer priced one cent above the ceiling of its request was rejected at the
\* price check
C19_Witness ==
    \E i \in Requests :
        /\ reqs[i].body.priceExpectation # NoCeiling
        /\ DecodeMemo[reqs[i].body.blob].price.amount = reqs[i].body.priceExpectation + 1
        /\ HasStep(i, "price")
        /\ Done(i)
        /\ reqs[i].result.stage = "sku.validate"
        /\ reqs[i].result.code = "PRICE_EXCEEDED"

(***************************************************************************)
(* C20  The product locator of every order request names the identifier    *)
(* that catalog validation returned: the identifier of a product of the    *)
(* catalog when the offer names one, the catalog's default identifier when *)
(* the offer names none; never an identifier an offer names that is none   *)
(* of the catalog's.                                                       *)
(***************************************************************************)
C20_OrderNamesValidatedIdentifier ==
    \A i \in Requests :
        HasStep(i, "order") =>
            LET offered == DecodeMemo[reqs[i].body.blob].asin
                validatedAsin == reqs[i].locals.validatedAsin
                listed == {productCatalog.products[n].asin :
                              n \in 1..Len(productCatalog.products)}
            IN  /\ reqs[i].order.productLocator = AMAZON_PREFIX \o validatedAsin
                /\ validatedAsin \in listed \cup {productCatalog.defaultASIN}
                /\ IF offered = Absent THEN validatedAsin = productCatalog.defaultASIN
                   ELSE validatedAsin = offered /\ offered \in listed

\* an offer without identifier was ordered under the default identifier of the
\* catalog file, here "B01MTB55WH"
C20_Witness ==
    \E i \in Requests :
        /\ HasStep(i, "order")
        /\ Done(i)
        /\ reqs[i].result.ok
        /\ DecodeMemo[reqs[i].body.blob].asin = Absent
        /\ productCatalog.defaultASIN = ASIN_ALT
        /\ reqs[i].order.productLocator = AMAZON_PREFIX \o ASIN_ALT

(***************************************************************************)
(* C21  as stated: every confirmed result reports the unit price of the    *)
(* signed offer, the quantity submitted (1 when omitted) and a total of    *)
(* unit price times quantity.  Refuted for a result replayed from the      *)
(* ledger to a request that submits another quantity under the same key.   *)
(***************************************************************************)
C21_ConfirmedTotals ==
    \A i \in Requests :
        (Done(i) /\ reqs[i].result.ok) =>
            LET submitted == reqs[i].body.quantity
                quantity == IF submitted = NoQuantity THEN 1 ELSE submitted
                offer == DecodeMemo[reqs[i].body.blob]
            IN  /\ reqs[i].result.unitPrice = offer.price.amount
                /\ reqs[i].result.quantity = quantity
                /\ reqs[i].result.totalPrice = offer.price.amount * quantity

(***************************************************************************)
(* C21  amended: every confirmed result that the request's own order call  *)
(* produced reports the unit price of the signed offer, the quantity       *)
(* submitted (1 when omitted) and a total of unit price times quantity;    *)
(* the offer priced 169.99 in quantity 1 totals 169.99.  A confirmed       *)
(* result replayed from the ledger is the stored one, whatever the request *)
(* submits.                                                                *)
(***************************************************************************)
C21_OwnConfirmedTotals ==
    \A i \in Requests :
        (Done(i) /\ reqs[i].result.ok) =>
            LET submitted == reqs[i].body.quantity
                quantity == IF submitted = NoQuantity THEN 1 ELSE submitted
                offer == DecodeMemo[reqs[i].body.blob]
            IN  IF reqs[i].seen.hit THEN reqs[i].result = reqs[i].seen.held.result
                ELSE /\ reqs[i].result.unitPrice = offer.price.amount
                     /\ reqs[i].result.quantity = quantity
                     /\ reqs[i].result.totalPrice = offer.price.amount * quantity
                     /\ (offer.price.amount = 16999 /\ quantity = 1)
                           => reqs[i].result.totalPrice = 16999

\* one request without quantity confirmed with quantity 1 and total 169.99, and
\* one with quantity 2 confirmed with total 339.98
C21_Witness ==
    \E i, j \in Requests :
        /\ Done(i) /\ reqs[i].result.ok /\ ~reqs[i].seen.hit
        /\ reqs[i].body.quantity = NoQuantity
        /\ reqs[i].result.quantity = 1
        /\ reqs[i].result.totalPrice = 16999
        /\ Done(j) /\ reqs[j].result.ok /\ ~reqs[j].seen.hit
        /\ reqs[j].body.quantity = 2
        /\ reqs[j].result.totalPrice = 33998

(***************************************************************************)
(* C22  as stated: every rejection carries a stage, a code, a message, the *)
(* request id and a timestamp, and its stage is one of auth, validation,   *)
(* catalog.validate, sku.validate, crossmint.createOrder and               *)
(* crossmint.validation.  Refuted by the code: the catch block gives every *)
(* exception it does not recognise the stage "unknown".                    *)
(***************************************************************************)
C22_RejectionNamesFailedStep ==
    \A i \in Requests :
        (Done(i) /\ ~reqs[i].result.ok) =>
            /\ reqs[i].result.stage \in
                  {"auth", "validation", "catalog.validate", "sku.validate",
                   "crossmint.createOrder", "crossmint.validation"}
            /\ reqs[i].result.code # ""
            /\ reqs[i].result.message # ""
            /\ reqs[i].result.requestId \in Requests
            /\ reqs[i].result.timestamp >= 0

\* a rejection with its code, message, request id and timestamp, whose stage is
\* "unknown"
C22_Witness ==
    \E i \in Requests :
        /\ Done(i)
        /\ ~reqs[i].result.ok
        /\ reqs[i].result.stage = "unknown"
        /\ reqs[i].result.code = "INTERNAL_ERROR"
        /\ reqs[i].result.message # ""
        /\ reqs[i].result.requestId = i
        /\ reqs[i].result.timestamp = reqs[i].finishedAt

\* request i failed: its signature does not verify, its token does not decode to
\* an offer, its identifier is not in the catalog, its price is above its
\* ceiling, or its order call did not return an order
Failed(i) ==
    LET body == reqs[i].body
        verdict == VerifyMemo[secret][body.blob][body.sig]
        product == DecodeMemo[body.blob]
    IN  \/ verdict # [threw |-> FALSE, value |-> TRUE]
        \/ product \in {DecodeError, JNull}
        \/ product.asin = ASIN_UNKNOWN
        \/ body.priceExpectation # NoCeiling /\ product.price.amount > body.priceExpectation
        \/ reqs[i].reply \in {"http_error", "no_order_id", "transport_error"}

(***************************************************************************)
(* C23  No error escapes the purchase handler: a request is either waiting *)
(* for its order call, without response, or it has ended with one          *)
(* response; a request that failed (bad signature, undecodable token,      *)
(* catalog miss, price above the ceiling, failed order call, response      *)
(* without order identifier) has ended with a rejection that carries       *)
(* stage, code and message, and an error status.                           *)
(***************************************************************************)
C23_ErrorsEndInRejection ==
    \A i \in Requests :
        /\ reqs[i].pc \in {"awaiting", "done"}
        /\ reqs[i].pc = "awaiting" =>
              /\ reqs[i].result = NoResult /\ reqs[i].status = 0
              /\ ~Failed(i)
        /\ Done(i) =>
              /\ reqs[i].result # NoResult
              /\ reqs[i].status \in {200, 400, 500, 502}
              /\ Failed(i) =>
                    /\ ~reqs[i].result.ok
                    /\ reqs[i].status # 200
                    /\ reqs[i].result.stage # ""
                    /\ reqs[i].result.code # ""
                    /\ reqs[i].result.message # ""
              /\ ~Failed(i) => reqs[i].result.ok /\ reqs[i].status = 200

\* a request ended with the rejection of an exception, and a request that arrived
\* afterwards was served and confirmed
C23_Witness ==
    \E i, j \in Requests :
        /\ Done(i)
        /\ HasStep(i, "catch")
        /\ reqs[i].status = 500
        /\ j > i
        /\ reqs[j].arrivedAt >= reqs[i].finishedAt
        /\ reqs[i].finishedAfter < j
        /\ Done(j)
        /\ reqs[j].result.ok

(***************************************************************************)
(* C24  as stated: a process that lacks the signing secret or the payment  *)
(* recipient at its start terminates before it takes a request: every     *)
(* request is served with both set.  Refuted by the code: the start checks *)
(* SERP_API_KEY and PRODUCT_SIGNING_SECRET only.                           *)
(***************************************************************************)
C24_NoRequestWithPartialConfiguration ==
    Len(reqs) > 0 =>
        /\ secret # Absent
        /\ probe.env.EXACT_RECIPIENT # ""

\* the process listens and has answered a request although EXACT_RECIPIENT is
\* not set
C24_Witness ==
    /\ probe.phase = "listening"
    /\ probe.env.EXACT_RECIPIENT = ""
    /\ secret # Absent
    /\ \E i \in Requests : Done(i) /\ reqs[i].result.ok

(***************************************************************************)
(* C25  as stated: from the moment the server takes requests the catalog   *)
(* variable holds the loaded catalog, and no step of a request handler     *)
(* assigns it.  Refuted by the code: the variable is null when the server  *)
(* starts to listen, and the first catalog validation loads it.            *)
(***************************************************************************)
C25_CatalogLoadedOnceAtStart ==
    [][/\ productCatalog.loaded
       /\ productCatalog = loadProductCatalog(configFile)
       /\ productCatalog' = productCatalog]_vars

\* a request handler has read the catalog file and assigned the variable
C25_Witness ==
    /\ configFile # NoFile
    /\ productCatalog = configFile
    /\ Len(reqs) = 1
    /\ HasStep(1, "catalog")
    /\ reqs[1].arrivedAt = 0

(***************************************************************************)
(* C26  When reading or parsing the catalog file fails, loadProductCatalog *)
(* raises nothing and the catalog becomes the built-in one, whose default  *)
(* identifier "B08C7KG5LP" is one of its entries; the process goes on:     *)
(* an offer of that identifier, and an offer without identifier, come to   *)
(* the order call.                                                         *)
(***************************************************************************)
C26_LoadFailureFallsBack ==
    /\ \A file \in BrokenFiles :
          /\ LoadError(file) # ""
          /\ loadProductCatalog(file) = FallbackCatalog
    /\ FallbackCatalog.defaultASIN = ASIN_AIRPODS
    /\ FindProduct(FallbackCatalog.products, ASIN_AIRPODS).asin = ASIN_AIRPODS
    /\ \A i \in Requests :
          (configFile \in BrokenFiles /\ HasStep(i, "catalog")) =>
              /\ productCatalog = FallbackCatalog
              /\ reqs[i].body.blob \in {"offer", "noAsin"} =>
                    /\ HasStep(i, "order")
                    /\ reqs[i].locals.validatedAsin = ASIN_AIRPODS
                    /\ reqs[i].locals.catalogProduct = FallbackCatalog.products[1]

\* the file is no JSON text, and an offer without identifier was ordered under the
\* default identifier of the built-in catalog
C26_Witness ==
    \E i \in Requests :
        /\ configFile = UnparsableFile
        /\ reqs[i].body.blob = "noAsin"
        /\ Done(i)
        /\ reqs[i].result.ok
        /\ productCatalog = FallbackCatalog
        /\ reqs[i].order.productLocator = AMAZON_PREFIX \o ASIN_AIRPODS

(***************************************************************************)
(* C27  as stated: a purchase request is first answered 402 Payment        *)
(* Required, and makes no order call of its own (the order is created      *)
(* after the payment is confirmed).  Refuted by the code: the purchase     *)
(* handler makes the order call itself and answers 200 with the order.     *)
(***************************************************************************)
C27_PaymentRequiredBeforeOrder ==
    \A i \in Requests :
        /\ ~HasStep(i, "order")
        /\ (Done(i) /\ reqs[i].body.blob = "offer" /\ reqs[i].body.sig = "valid"
              /\ ~reqs[i].seen.hit)
             => reqs[i].status = 402

\* a purchase request made the order call, was answered 200 with the order, and
\* its payment record was written as completed
C27_Witness ==
    \E i \in Requests :
        /\ HasStep(i, "order")
        /\ reqs[i].reply = "created"
        /\ Done(i)
        /\ reqs[i].status = 200
        /\ reqs[i].result.orderId = i
        /\ i \in DOMAIN pendingPayments
        /\ pendingPayments[i].status = "completed"

\* ---------------------------------------------------------------------------
\* src/payments/exact.js: the builder and the validator of "exact" accepts
\* arrays.  Texts whose characters matter (amounts) are sequences of character
\* codes; numbers are whole cents, so that toFixed(2) is exact on them.
\* ---------------------------------------------------------------------------

\* Largest number of entries of an accepts array handed to the validator.
MaxAccepts == 2

CH_DOT == 46
CH_ZERO == 48

IsDigitCode(c) == c \in 48..57

\* Length of the longest prefix of s made of decimal digits.
DigitRun(s) ==
    CHOOSE k \in 0..Len(s) :
        /\ \A i \in 1..k : IsDigitCode(s[i])
        /\ (k = Len(s) \/ ~IsDigitCode(s[k + 1]))

RECURSIVE DigitsValue(_)
DigitsValue(s) ==
    IF s = <<>> THEN 0
    ELSE 10 * DigitsValue(SubSeq(s, 1, Len(s) - 1)) + (s[Len(s)] - CH_ZERO)

\* A JavaScript number: NaN, or a whole number of cents.
JS_NaN == [nan |-> TRUE, cents |-> 0]
Cents(n) == [nan |-> FALSE, cents |-> n]

\* Number.prototype.toFixed(2) on a whole number of cents.
toFixed2(n) ==
    LET a == IF n < 0 THEN 0 - n ELSE n
        frac == a % 100
    IN  (IF n < 0 THEN <<CH_MINUS>> ELSE <<>>)
          \o Digits(a \div 100) \o <<CH_DOT>>
          \o (IF frac < 10 THEN <<CH_ZERO>> ELSE <<>>) \o Digits(frac)

\* parseFloat: an optional sign, digits, an optional fraction; the longest
\* such prefix is the value, NaN when it holds no digit.  Fractions are read
\* to the cent.
parseFloat(s) ==
    LET neg == Len(s) > 0 /\ s[1] = CH_MINUS
        body == IF neg THEN Tail(s) ELSE s
        ip == DigitRun(body)
        rest == SubSeq(body, ip + 1, Len(body))
        hasFrac == Len(rest) > 0 /\ rest[1] = CH_DOT
        fracAll == IF hasFrac THEN Tail(rest) ELSE <<>>
        fp == DigitRun(fracAll)
        frac2 == SubSeq(SubSeq(fracAll, 1, fp) \o <<CH_ZERO, CH_ZERO>>, 1, 2)
        magnitude == 100 * DigitsValue(SubSeq(body, 1, ip)) + DigitsValue(frac2)
    IN  IF ip = 0 /\ fp = 0 THEN JS_NaN
        ELSE Cents(IF neg THEN 0 - magnitude ELSE magnitude)

\* The amount of an inputConfig: undefined, a number or a string.
AmountUndefined == [type |-> "undefined", num |-> JS_NaN, text |-> <<>>]
AmountNumber(n) == [type |-> "number", num |-> n, text |-> <<>>]
AmountString(s) == [type |-> "string", num |-> JS_NaN, text |-> s]

TXT_16999 == <<49, 54, 57, 46, 57, 57>>
TXT_5 == <<53>>
TXT_0 == <<CH_ZERO>>
TXT_MINUS_1 == <<CH_MINUS, 49>>
TXT_ABC == <<97, 98, 99>>
TXT_5ABC == <<53, 97, 98, 99>>
TXT_DOT_5 == <<CH_DOT, 53>>

AmountInputs ==
    {AmountUndefined,
     AmountNumber(Cents(0)), AmountNumber(JS_NaN), AmountNumber(Cents(16999)),
     AmountNumber(Cents(5)), AmountNumber(Cents(-500)),
     AmountNumber(Cents(500)), AmountNumber(Cents(16990)),
     AmountString(<<>>), AmountString(TXT_16999), AmountString(TXT_5),
     AmountString(TXT_0), AmountString(TXT_MINUS_1), AmountString(TXT_ABC),
     AmountString(TXT_5ABC), AmountString(TXT_DOT_5)}

\* !amount
AmountFalsy(amount) ==
    CASE amount.type = "undefined" -> TRUE
      [] amount.type = "number" -> amount.num.nan \/ amount.num.cents = 0
      [] OTHER -> amount.text = <<>>

\* process.env as exact.js reads it; "" stands for a variable that is unset
\* or empty, which the code does not tell apart.
ExactEnvironments ==
    [EXACT_ASSET : {"", "USDT"}, EXACT_CHAIN : {"", "base"},
     EXACT_RECIPIENT : {"", "merchant"}, FACILITATOR_URL : {"", "facilitator"}]

InputConfigs ==
    [amount : AmountInputs, asset : {"", "SOL"}, chain : {"", "devnet"},
     recipient : {"", "other"}, reference : {"", "memo"}, paymentId : {"", "p1"}]

BuildInputs == [paymentId : {"", "p2"}, message : {"", "pay"}]

NoExactConfig == [scheme |-> "", asset |-> "", chain |-> "", recipient |-> "", facilitatorUrl |-> ""]

getExactPaymentConfig(env) ==
    LET exactConfig ==
            [scheme |-> "exact",
             asset |-> IF env.EXACT_ASSET # "" THEN env.EXACT_ASSET ELSE "USDC",
             chain |-> IF env.EXACT_CHAIN # "" THEN env.EXACT_CHAIN ELSE "solana",
             recipient |-> env.EXACT_RECIPIENT,
             facilitatorUrl |-> env.FACILITATOR_URL]
    IN  IF exactConfig.recipient = ""
        THEN [threw |-> TRUE, message |-> "EXACT_RECIPIENT environment variable is required",
              config |-> NoExactConfig]
        ELSE IF exactConfig.facilitatorUrl = ""
        THEN [threw |-> TRUE, message |-> "FACILITATOR_URL environment variable is required",
              config |-> NoExactConfig]
        ELSE [threw |-> FALSE, message |-> "", config |-> exactConfig]

\* An entry of an accepts array.  isObject is `entry && typeof entry ===
\* 'object'`; a field that is absent, or present with a falsy value, is ""
\* (<<>> for the amount).
AcceptsEntry(scheme, amount, asset, chain, recipient, reference) ==
    [isObject |-> TRUE, scheme |-> scheme, amount |-> amount, asset |-> asset,
     chain |-> chain, recipient |-> recipient, reference |-> reference]

NotAnObject == [isObject |-> FALSE, scheme |-> "", amount |-> <<>>, asset |-> "",
                chain |-> "", recipient |-> "", reference |-> ""]

\* A value handed to the validator: isArray is Array.isArray(accepts).
AcceptsValue(isArray, items) == [isArray |-> isArray, items |-> items]

NoExactResponse == [x402Version |-> 0, accepts |-> AcceptsValue(FALSE, <<>>),
                    paymentId |-> "", message |-> ""]

BuildThrew(message) == [threw |-> TRUE, message |-> message, response |-> NoExactResponse]

buildExactAccepts_NoEntry(config, amount, inputConfig, input) ==
    [threw |-> FALSE, message |-> "",
     response |-> [x402Version |-> 1, accepts |-> AcceptsValue(TRUE, <<>>),
                   paymentId |-> "", message |-> ""]]

\* buildExactAccepts once the configuration is read and the amount accepted.
buildExactResponse(config, amount, inputConfig, input) ==
    LET exactEntry ==
            AcceptsEntry("exact", amount,
                IF inputConfig.asset # "" THEN inputConfig.asset ELSE config.asset,
                IF inputConfig.chain # "" THEN inputConfig.chain ELSE config.chain,
                IF inputConfig.recipient # "" THEN inputConfig.recipient ELSE config.recipient,
                inputConfig.reference)
    IN  [threw |-> FALSE, message |-> "",
         response |-> [x402Version |-> 1,
                       accepts |-> AcceptsValue(TRUE, <<exactEntry>>),
                       paymentId |-> IF input.paymentId # "" THEN input.paymentId
                                     ELSE inputConfig.paymentId,
                       message |-> input.message]]

buildExactAccepts(env, inputConfig, input) ==
    LET paymentConfig == getExactPaymentConfig(env)
        amount == IF inputConfig.amount.type = "number"
                  THEN toFixed2(inputConfig.amount.num.cents)
                  ELSE inputConfig.amount.text
        numericAmount == parseFloat(amount)
    IN  IF paymentConfig.threw THEN BuildThrew(paymentConfig.message)
        ELSE IF AmountFalsy(inputConfig.amount)
        THEN BuildThrew("Amount is required for exact payment accepts")
        ELSE IF numericAmount.nan \/ numericAmount.cents <= 0
        THEN BuildThrew("Invalid amount for exact payment")
        ELSE buildExactResponse(paymentConfig.config, amount, inputConfig, input)

\* The error of the first entry that fails, "" when the entry passes.
validateEntry_AnyScheme(entry) ==
    IF ~entry.isObject THEN "Invalid accepts entry: must be an object"
    ELSE IF entry.amount = <<>> THEN "Missing required field amount"
    ELSE IF entry.asset = "" THEN "Missing required field asset"
    ELSE IF entry.chain = "" THEN "Missing required field chain"
    ELSE IF entry.recipient = "" THEN "Missing required field recipient"
    ELSE ""

validateEntry(entry) ==
    IF ~entry.isObject THEN "Invalid accepts entry: must be an object"
    ELSE IF entry.scheme # "exact" THEN "Invalid scheme in accepts"
    ELSE IF entry.amount = <<>> THEN "Missing required field amount"
    ELSE IF entry.asset = "" THEN "Missing required field asset"
    ELSE IF entry.chain = "" THEN "Missing required field chain"
    ELSE IF entry.recipient = "" THEN "Missing required field recipient"
    ELSE ""

\* validateExactAccepts: the message of the error it throws, "" when it
\* returns.
validateExactAccepts(accepts) ==
    IF ~accepts.isArray \/ Len(accepts.items) = 0
    THEN "Accepts array must be non-empty for exact scheme validation"
    ELSE LET failing == {i \in 1..Len(accepts.items) : validateEntry(accepts.items[i]) # ""}
         IN  IF failing = {} THEN ""
             ELSE validateEntry(accepts.items[CHOOSE i \in failing : \A j \in failing : i <= j])

\* Entries offered to the validator: a value that is no object, and objects
\* over every combination of scheme and of present and missing fields.
ValidatorEntries ==
    {NotAnObject} \cup
    {AcceptsEntry(s, a, as, c, r, "") :
        s \in {"", "exact", "x-solana-settlement"}, a \in {<<>>, TXT_5},
        as \in {"", "USDC"}, c \in {"", "solana"}, r \in {"", "merchant"}}

RECURSIVE EntrySeqs(_)
EntrySeqs(n) ==
    IF n = 0 THEN {<<>>}
    ELSE LET shorter == EntrySeqs(n - 1)
         IN  shorter \cup {Append(s, e) : s \in {t \in shorter : Len(t) = n - 1},
                                          e \in ValidatorEntries}

\* Values that are no array (null, an object, a string) carry no items.
ValidatorInputs ==
    {AcceptsValue(FALSE, <<>>)} \cup {AcceptsValue(TRUE, s) : s \in EntrySeqs(MaxAccepts)}

\* String(amount)
JS_String(amount) ==
    CASE amount.type = "undefined" -> <<117, 110, 100, 101, 102, 105, 110, 101, 100>>
      [] amount.type = "number" ->
            IF amount.num.nan THEN <<78, 97, 78>>
            ELSE IF amount.num.cents < 0
            THEN <<CH_MINUS>> \o NumberText(0 - amount.num.cents)
            ELSE NumberText(amount.num.cents)
      [] OTHER -> amount.text

\* the configurations handed to createExactPaymentResponse and getExactHeaders
PaymentConfigs == [amount : AmountInputs, paymentId : {"", "p1"}, reference : {"", "memo"}]

\* createExactPaymentResponse: the response of buildExactAccepts with the
\* legacy fields added
createExactPaymentResponse(env, config) ==
    LET exactResponse ==
            buildExactAccepts(env,
                [amount |-> config.amount,
                 reference |-> IF config.reference # "" THEN config.reference
                               ELSE config.paymentId,
                 asset |-> "", chain |-> "", recipient |-> "", paymentId |-> ""],
                [paymentId |-> config.paymentId, message |-> "Payment required"])
    IN  [threw |-> exactResponse.threw, message |-> exactResponse.message,
         response |-> exactResponse.response,
         error |-> "Payment Required",
         amount |-> parseFloat(JS_String(config.amount)),
         currency |-> "USDC"]

getExactHeaders(config) ==
    [Accept |-> "exact",
     X_Payment_Amount |-> JS_String(config.amount),
     X_Payment_Currency |-> "USDC",
     X_Payment_Id |-> config.paymentId,
     X_Payment_Schemes |-> "exact"]

ExactInit ==
    /\ probe = [op |-> "idle"]
    /\ secret = SECRET_A
    /\ ServerIdle

\* One call of buildExactAccepts, and of validateExactAccepts on what it
\* returned.
ExactBuild ==
    /\ probe.op = "idle"
    /\ \E env \in ExactEnvironments, inputConfig \in InputConfigs, input \in BuildInputs :
           LET out == buildExactAccepts(env, inputConfig, input)
           IN  probe' = [op |-> "build", env |-> env, inputConfig |-> inputConfig,
                         input |-> input, out |-> out,
                         error |-> IF out.threw THEN ""
                                   ELSE validateExactAccepts(out.response.accepts)]
    /\ UNCHANGED <<secret, serverVars>>

\* One call of validateExactAccepts on a value of the caller's.
ExactValidate ==
    /\ probe.op = "idle"
    /\ \E accepts \in ValidatorInputs :
           probe' = [op |-> "validate", accepts |-> accepts,
                     error |-> validateExactAccepts(accepts)]
    /\ UNCHANGED <<secret, serverVars>>

\* One 402 challenge: createExactPaymentResponse and getExactHeaders on the
\* same configuration.
ExactChallenge ==
    /\ probe.op = "idle"
    /\ \E env \in ExactEnvironments, config \in PaymentConfigs :
           probe' = [op |-> "challenge", env |-> env, config |-> config,
                     out |-> createExactPaymentResponse(env, config),
                     headers |-> getExactHeaders(config)]
    /\ UNCHANGED <<secret, serverVars>>

ExactNext == ExactBuild \/ ExactValidate \/ ExactChallenge

SpecExact == ExactInit /\ [][ExactNext]_vars

\* C28: whenever buildExactAccepts returns, the recipient and the facilitator
\* are configured and the amount parses to a positive number, the accepts
\* array of the response holds exactly one entry, that entry's scheme is
\* "exact", and validateExactAccepts returns on the array without an error.
C28_BuiltAcceptsPassValidation ==
    (probe.op = "build" /\ ~probe.out.threw) =>
        LET accepts == probe.out.response.accepts
        IN  /\ probe.env.EXACT_RECIPIENT # "" /\ probe.env.FACILITATOR_URL # ""
            /\ accepts.isArray
            /\ Len(accepts.items) = 1
            /\ accepts.items[1].isObject
            /\ accepts.items[1].scheme = "exact"
            /\ ~parseFloat(accepts.items[1].amount).nan
            /\ parseFloat(accepts.items[1].amount).cents > 0
            /\ probe.error = ""

C28_Witness ==
    /\ probe.op = "build"
    /\ ~probe.out.threw
    /\ probe.inputConfig.amount = AmountNumber(Cents(16999))
    /\ probe.inputConfig.recipient = ""
    /\ probe.out.response.accepts.items[1].amount = TXT_16999
    /\ probe.out.response.accepts.items[1].recipient = "merchant"
    /\ probe.out.response.accepts.items[1].asset = "USDC"
    /\ probe.error = ""

\* C29: validateExactAccepts throws for every value that is not a non-empty
\* array and for every array holding an entry that is no object, whose scheme
\* is not "exact", or that lacks one of amount, asset, chain and recipient; it
\* returns exactly when every entry is an object of scheme "exact" with all
\* four fields set.
EntryIsExact(entry) ==
    /\ entry.isObject
    /\ entry.scheme = "exact"
    /\ entry.amount # <<>>
    /\ entry.asset # ""
    /\ entry.chain # ""
    /\ entry.recipient # ""

C29_ValidatorReturnsExactlyOnExactArrays ==
    probe.op = "validate" =>
        LET accepts == probe.accepts
        IN  (probe.error = "") <=>
                /\ accepts.isArray
                /\ Len(accepts.items) > 0
                /\ \A i \in 1..Len(accepts.items) : EntryIsExact(accepts.items[i])

C29_Witness ==
    /\ probe.op = "validate"
    /\ probe.accepts.isArray
    /\ Len(probe.accepts.items) = 2
    /\ EntryIsExact(probe.accepts.items[1])
    /\ probe.accepts.items[2].scheme = "x-solana-settlement"
    /\ probe.accepts.items[2].recipient = "merchant"
    /\ probe.error = "Invalid scheme in accepts"

\* ---------------------------------------------------------------------------
\* The await of the order call.  The handler suspends at `await
\* callCrossmintAPI(...)`, which awaits fetch(url, {...options, headers}) with
\* no signal, no timer and no race against a deadline; the only step that
\* resumes a suspended request is the settling of that fetch, which is the
\* collaborator's (and the transport's) to give.  Time passing is the one
\* step the specification is fair to: the clock advances whether or not the
\* collaborator answers.
\* ---------------------------------------------------------------------------
MaxAwaitRequests == 2

AwaitBodies ==
    {b \in AllBodies :
        /\ b.blob = "offer"
        /\ b.sig = "valid"
        /\ b.idempotencyKey \in Keys
        /\ b.priceExpectation = NoCeiling
        /\ b.quantity = NoQuantity}

AwaitNext ==
    \/ PurchaseArrive(AwaitBodies, MaxAwaitRequests)
    \/ CrossmintReply(CrossmintReplies)
    \/ Tick

SpecAwait == Init /\ [][AwaitNext]_vars /\ WF_vars(Tick)

\* C30: every purchase request eventually ends with a result, even when the
\* collaborator never answers the order call (the call times out and the
\* request ends with a rejection); a request under another idempotency key
\* is served while a call is in flight.
C30_EveryRequestEnds ==
    \A i \in 1..MaxAwaitRequests :
        (Len(reqs) >= i) ~> (Len(reqs) >= i /\ Done(i))

\* A call is in flight, time has passed, nothing but the collaborator's reply
\* can end the waiting request, and a request under another key that arrived
\* meanwhile has been served.
C30_Witness ==
    \E i, j \in Requests :
        /\ reqs[i].pc = "awaiting"
        /\ HasStep(i, "order")
        /\ ticks = MaxTicks
        /\ now - reqs[i].arrivedAt >= RETENTION_MS - 1
        /\ j > i
        /\ Key(j) # Key(i)
        /\ Done(j)
        /\ reqs[j].status = 200

\* While a call is in flight the handler takes no request of another key
\* hostage: such a request can still arrive and run to its own order call.
C30_OtherKeysNotBlocked ==
    \A i \in Requests :
        (reqs[i].pc = "awaiting" /\ Len(reqs) < MaxAwaitRequests)
            => ENABLED PurchaseArrive({b \in AwaitBodies : b.idempotencyKey # Key(i)},
                                      MaxAwaitRequests)

\* C31: when two purchase requests in flight at the same time store a result
\* under the same idempotency key, each store is atomic: every record of the
\* ledger is the complete (result, timestamp) pair written by the store of one
\* request of that key, and after both stores the key has a record.
Overlapping(i, j) == i < j /\ Key(i) = Key(j) /\ ~ArrivedAfter(j, i)

C31_StoresAreAtomic ==
    /\ \A k \in DOMAIN idempotencyCache :
          \E i \in Requests :
              /\ StoredOwn(i)
              /\ Key(i) = k
              /\ idempotencyCache[k] =
                     [result |-> reqs[i].result, timestamp |-> reqs[i].finishedAt]
    /\ \A i, j \in Requests :
          (/\ Overlapping(i, j)
           /\ StoredOwn(i)
           /\ StoredOwn(j)
           /\ \A r \in Requests : ~(ArrivedAfter(r, i) /\ ArrivedAfter(r, j)))
              => Key(i) \in DOMAIN idempotencyCache

C31_Witness ==
    \E i, j \in Requests :
        /\ Overlapping(i, j)
        /\ StoredOwn(i)
        /\ StoredOwn(j)
        /\ reqs[i].finishedAt # reqs[j].finishedAt
        /\ reqs[i].result # reqs[j].result
        /\ Key(i) \in DOMAIN idempotencyCache
        /\ idempotencyCache[Key(i)] \in
               {[result |-> reqs[r].result, timestamp |-> reqs[r].finishedAt] : r \in {i, j}}

\* C32: a purchase request calls the fulfillment collaborator at most once;
\* when the call fails (a non-success status, a transport error) or returns a
\* body without order identifier, the request ends with a rejection and the
\* call is not made again.
FailedReplies == {"http_error", "no_order_id", "transport_error"}

C32_OrderCallNeverRetried ==
    \A i \in Requests :
        /\ OrderAttempts(reqs[i].steps) <= 1
        /\ reqs[i].reply \in FailedReplies =>
              /\ Done(i)
              /\ reqs[i].steps[Len(reqs[i].steps)] = "catch"
              /\ reqs[i].status \in {500, 502}
              /\ ~reqs[i].result.ok

C32_Witness ==
    \E i, j \in Requests :
        /\ reqs[i].reply = "transport_error"
        /\ reqs[j].reply = "no_order_id"
        /\ Done(i) /\ Done(j)
        /\ OrderAttempts(reqs[i].steps) = 1
        /\ OrderAttempts(reqs[j].steps) = 1
        /\ reqs[i].status = 500
        /\ reqs[j].status = 502

\* ---------------------------------------------------------------------------
\* Requests without token or without signature, arriving while the ledger
\* holds a record (live or expired) for their key.
\* ---------------------------------------------------------------------------
MaxRequiredRequests == 2

RequiredBodies ==
    {b \in AllBodies :
        /\ b.idempotencyKey = "K1"
        /\ b.priceExpectation = NoCeiling
        /\ b.quantity = NoQuantity
        /\ <<b.blob, b.sig>> \in {<<"offer", "valid">>, <<"missing", "valid">>,
                                  <<"offer", "missing">>, <<"missing", "missing">>}}

RequiredNext ==
    \/ PurchaseArrive(RequiredBodies, MaxRequiredRequests)
    \/ CrossmintReply(CoreReplies)
    \/ Tick

SpecRequired == Init /\ [][RequiredNext]_vars

\* C33: a purchase request without productBlob or without signature is
\* answered 400 with stage "validation" and code MISSING_REQUIRED_FIELDS
\* before the ledger is consulted: the step that receives it leaves the ledger
\* (a live or an expired record of its key included) and the payment records
\* as they were, replays nothing and makes no order call.
C33_MissingFieldsRejectedBeforeLedger ==
    [][\A n \in 1..MaxRequiredRequests :
          (/\ Len(reqs) = n - 1
           /\ Len(reqs') = n
           /\ (reqs'[n].body.blob = "missing" \/ reqs'[n].body.sig = "missing"))
              => /\ reqs'[n].pc = "done"
                 /\ reqs'[n].status = 400
                 /\ reqs'[n].result.stage = "validation"
                 /\ reqs'[n].result.code = "MISSING_REQUIRED_FIELDS"
                 /\ reqs'[n].steps = <<"required">>
                 /\ ~reqs'[n].seen.hit
                 /\ idempotencyCache' = idempotencyCache
                 /\ pendingPayments' = pendingPayments]_vars

\* a request without signature has been rejected while its key held a live
\* record, which is still in the ledger
C33_Witness ==
    \E i, j \in Requests :
        /\ i < j
        /\ StoredOwn(i)
        /\ reqs[i].status = 200
        /\ reqs[j].body.blob = "offer"
        /\ reqs[j].body.sig = "missing"
        /\ LiveRecordHeld(j)
        /\ reqs[j].status = 400
        /\ reqs[j].result.code = "MISSING_REQUIRED_FIELDS"
        /\ "K1" \in DOMAIN idempotencyCache
        /\ idempotencyCache["K1"].result = reqs[i].result

\* C34: a purchase request rejected before the order call (invalid signature,
\* undecodable token, catalog miss, exceeded price ceiling) writes nothing to
\* the ledger, and no later request of its key is answered with its
\* rejection.
RejectedBeforeOrder(i) ==
    /\ Done(i)
    /\ HasStep(i, "verify")
    /\ ~HasStep(i, "order")

C34_EarlyRejectionLeavesLedger ==
    /\ \A i \in Requests : (RejectedBeforeOrder(i) /\ Keyed(i)) => ~StoredOwn(i)
    /\ \A i, j \in Requests :
          (RejectedBeforeOrder(i) /\ i < j /\ Done(j) /\ SameSubmission(i, j))
              => ~(reqs[j].seen.hit /\ reqs[j].result = reqs[i].result)

\* a signature of the wrong length was rejected through the catch block, which
\* stored the rejection; the same submission sent again is answered from the
\* ledger with that rejection
C34_Witness ==
    \E i, j \in Requests :
        /\ RejectedBeforeOrder(i)
        /\ reqs[i].body.sig = "short"
        /\ reqs[i].status = 500
        /\ StoredOwn(i)
        /\ i < j
        /\ SameSubmission(i, j)
        /\ reqs[j].seen.hit
        /\ reqs[j].result = reqs[i].result
        /\ reqs[j].steps = <<"required", "idempotency">>

\* The rejections the handler returns (a signature of the right length that
\* does not match, a token that does not decode, an identifier outside the
\* catalog, a price above the ceiling) store nothing.
C34_ReturnedRejectionsLeaveLedger ==
    \A i \in Requests :
        (RejectedBeforeOrder(i) /\ reqs[i].steps[Len(reqs[i].steps)] # "catch")
            => /\ reqs[i].status = 400
               /\ (Len(reqs) = 1 => idempotencyCache = EmptyMap)

\* C35: a result replayed from the ledger is delivered with the HTTP status of
\* the response that stored it (a downstream failure first answered 502 is
\* replayed with 502).
Replays(j, i) ==
    /\ i < j
    /\ StoredOwn(i)
    /\ Done(j)
    /\ Key(j) = Key(i)
    /\ reqs[j].seen.hit
    /\ reqs[j].result = reqs[i].result
    /\ reqs[j].steps = <<"required", "idempotency">>

C35_ReplayKeepsStatus ==
    \A i, j \in Requests : Replays(j, i) => reqs[j].status = reqs[i].status

\* the order call of a request failed and the request was answered 502; the
\* retry under its key is answered with the stored rejection and status 200
C35_Witness ==
    \E i, j \in Requests :
        /\ Replays(j, i)
        /\ reqs[i].reply = "http_error"
        /\ reqs[i].status = 502
        /\ reqs[i].result.code = "CROSSMINT_API_ERROR"
        /\ reqs[j].result.code = "CROSSMINT_API_ERROR"
        /\ reqs[j].status = 200

\* A replayed confirmation has the status of the original confirmation.
C35_ReplayedConfirmationKeepsStatus ==
    \A i, j \in Requests :
        (Replays(j, i) /\ reqs[i].result.ok) => reqs[j].status = reqs[i].status

\* ---------------------------------------------------------------------------
\* POST /payment-webhook.  A call names a payment; probe.calls keeps the calls
\* made so far, each with its response and with the payment records before
\* and after it.  The handler reaches its own order call only for a record of
\* status 'pending' and suspends there (pc "awaiting").
\* ---------------------------------------------------------------------------
MaxWebhookRequests == 2
MaxWebhookCalls == 2

\* no payment_id in the body of the call
NoPaymentId == 0

\* the payment identifiers a caller may name: those of the purchases, and one
\* that no purchase has
WebhookIds == {NoPaymentId} \cup (1..MaxWebhookRequests + 1)

\* paymentWebhook flipping a settled payment back to 'pending'
paymentWebhook_Reopens(payment_id, pending) ==
    IF payment_id \in DOMAIN pending
    THEN [pc |-> "done", status |-> 200, completed_orders |-> 0,
          pending |-> [pending EXCEPT ![payment_id].status = "pending"]]
    ELSE [pc |-> "done", status |-> 404, completed_orders |-> 0, pending |-> pending]

\* the handler up to its response or to the await of its order call
paymentWebhook(payment_id, pending) ==
    IF payment_id = NoPaymentId
    THEN [pc |-> "done", status |-> 400, completed_orders |-> 0, pending |-> pending]
    ELSE IF payment_id \in DOMAIN pending
    THEN IF pending[payment_id].status = "pending"
         THEN [pc |-> "awaiting", status |-> 0, completed_orders |-> 0,
               pending |-> pending]
         ELSE [pc |-> "done", status |-> 200, completed_orders |-> 0,
               pending |-> pending]
    ELSE [pc |-> "done", status |-> 404, completed_orders |-> 0, pending |-> pending]

WebhookBodies ==
    {b \in AllBodies :
        /\ b.blob = "offer"
        /\ b.sig = "valid"
        /\ b.idempotencyKey = NoKey
        /\ b.priceExpectation = NoCeiling
        /\ b.quantity = NoQuantity}

\* the order call returns an order, or a body without order identifier
WebhookReplies == {"created", "no_order_id"}

WebhookInit ==
    /\ probe = [op |-> "webhook", calls |-> <<>>]
    /\ secret = SECRET_A
    /\ ServerIdle

PaymentWebhook ==
    /\ Len(probe.calls) < MaxWebhookCalls
    /\ \E payment_id \in WebhookIds :
          LET out == paymentWebhook(payment_id, pendingPayments)
          IN  /\ probe' = [probe EXCEPT !.calls =
                              Append(@, [payment_id |-> payment_id, pc |-> out.pc,
                                         status |-> out.status,
                                         completed_orders |-> out.completed_orders,
                                         before |-> pendingPayments,
                                         after |-> out.pending])]
              /\ pendingPayments' = out.pending
    /\ UNCHANGED <<secret, now, ticks, productCatalog, configFile, idempotencyCache, reqs>>

WebhookNext ==
    \/ PurchaseArrive(WebhookBodies, MaxWebhookRequests)
    \/ CrossmintReply(WebhookReplies)
    \/ PaymentWebhook

SpecWebhook == WebhookInit /\ [][WebhookNext]_vars

WebhookCalls == 1..Len(probe.calls)

WebhookOrderCalls(p) ==
    Cardinality({c \in WebhookCalls :
                    probe.calls[c].payment_id = p /\ probe.calls[c].pc = "awaiting"})

C37_UnknownPaymentWitness ==
    \E c \in WebhookCalls :
        /\ probe.calls[c].payment_id = MaxWebhookRequests + 1
        /\ probe.calls[c].status = 404
        /\ probe.calls[c].before # EmptyMap

\* C38: for the same amount and paymentId, the X-Payment-Amount header of
\* getExactHeaders equals the amount of the accepts entry of
\* createExactPaymentResponse, for every valid amount, a number or a string.
C38_HeaderAmountMatchesAccepts ==
    (probe.op = "challenge" /\ ~probe.out.threw) =>
        probe.headers.X_Payment_Amount = probe.out.response.accepts.items[1].amount

\* the amount 5, a number: the entry says "5.00" and the header "5"
C38_Witness ==
    /\ probe.op = "challenge"
    /\ ~probe.out.threw
    /\ probe.config.amount = AmountNumber(Cents(500))
    /\ Len(probe.out.response.accepts.items) = 1
    /\ probe.out.response.accepts.items[1].amount = <<53, 46, 48, 48>>
    /\ probe.headers.X_Payment_Amount = <<53>>
    /\ probe.headers.X_Payment_Id = probe.out.response.paymentId

\* For an amount given as a string, and for a number with two decimals, the
\* header and the entry carry the same text; for every number they carry the
\* same value.
C38_StringAmountsMatch ==
    (probe.op = "challenge" /\ ~probe.out.threw) =>
        /\ parseFloat(probe.headers.X_Payment_Amount)
              = parseFloat(probe.out.response.accepts.items[1].amount)
        /\ (probe.config.amount.type = "string" \/ probe.config.amount.num.cents % 10 # 0)
              => probe.headers.X_Payment_Amount
                    = probe.out.response.accepts.items[1].amount

\* The line items of the order request: one item, holding the product locator
\* and nothing else.
OrderLineItems(order) == <<[productLocator |-> order.productLocator]>>

\* The units an order request asks for: a line item names no quantity, so each
\* item is one unit.
OrderedUnits(order) == Len(OrderLineItems(order))

\* request i was confirmed by its own order call
Confirmed(i) ==
    /\ Done(i)
    /\ reqs[i].status = 200
    /\ HasStep(i, "respond")
    /\ reqs[i].result.ok

\* C39: the order submitted to the collaborator is for the quantity that the
\* confirmation reports and the total price is computed from; a request with
\* quantity n > 1 orders n units.
C39_OrderedQuantityIsReported ==
    \A i \in Requests :
        Confirmed(i) =>
            /\ reqs[i].result.quantity = Quantity(reqs[i].body)
            /\ reqs[i].result.totalPrice
                  = reqs[i].result.unitPrice * reqs[i].result.quantity
            /\ OrderedUnits(reqs[i].order) = reqs[i].result.quantity

\* a request for two units was confirmed for two units at twice the price,
\* with an order of one line item
C39_Witness ==
    \E i \in Requests :
        /\ Confirmed(i)
        /\ reqs[i].body.quantity = 2
        /\ reqs[i].result.quantity = 2
        /\ reqs[i].result.totalPrice = 2 * reqs[i].result.unitPrice
        /\ pendingPayments[i].quantity = 2
        /\ OrderedUnits(reqs[i].order) = 1

\* The confirmation and the payment record agree on the quantity and on the
\* total, and a request for one unit orders one unit.
C39_ReportedQuantityIsRecorded ==
    \A i \in Requests :
        Confirmed(i) =>
            /\ reqs[i].result.quantity = pendingPayments[i].quantity
            /\ reqs[i].result.totalPrice = pendingPayments[i].totalPrice
            /\ Quantity(reqs[i].body) = 1
                  => OrderedUnits(reqs[i].order) = reqs[i].result.quantity

\* C40: in every confirmation the product identifier reported to the caller
\* is the identifier sent to the collaborator and recorded in the payment
\* record, also when the offer carried no identifier and the catalog default
\* was used.
C40_ReportedIdentifierIsOrdered ==
    \A i \in Requests :
        Confirmed(i) =>
            /\ reqs[i].order.productLocator = AMAZON_PREFIX \o pendingPayments[i].asin
            /\ reqs[i].result.asin = pendingPayments[i].asin

\* an offer without identifier was confirmed: the default identifier of the
\* catalog was ordered and recorded, and the confirmation reports none
C40_Witness ==
    \E i \in Requests :
        /\ Confirmed(i)
        /\ reqs[i].body.blob = "noAsin"
        /\ productCatalog.loaded
        /\ pendingPayments[i].asin = productCatalog.defaultASIN
        /\ pendingPayments[i].originalAsin = Absent
        /\ reqs[i].order.productLocator = AMAZON_PREFIX \o productCatalog.defaultASIN
        /\ reqs[i].result.asin = Absent

\* The identifier sent to the collaborator is the recorded one, and for an
\* offer that names a catalog product it is also the reported one.
C40_OrderedIdentifierIsRecorded ==
    \A i \in Requests :
        Confirmed(i) =>
            /\ reqs[i].order.productLocator = AMAZON_PREFIX \o pendingPayments[i].asin
            /\ reqs[i].body.blob = "offer" => reqs[i].result.asin = pendingPayments[i].asin

====
